---------------------------- MODULE Spec2Model ----------------------------
(***************************************************************************)
(* Model of the evermedia-api upload ingestion pipeline and of the         *)
(* authorization gate in front of it.                                      *)
(*                                                                         *)
(*   Spec     one HTTP request to a route gated by                         *)
(*            [authToken, requireAuth, requireRoles(S)]; on POST           *)
(*            /media/upload the handler is doUpload, stepped from one      *)
(*            await to the next.                                           *)
(*   SpecJwt  sign / alter / verify of one access token under a clock.     *)
(***************************************************************************)
EXTENDS Integers, Sequences, FiniteSets, TLC

(***************************************************************************)
(* Bounds of the model and program constants.                              *)
(***************************************************************************)
\* most parts one multipart stream carries
MaxParts == 3
\* settings.UPLOAD_MAX_FILES, a deployment setting
UPLOAD_MAX_FILES == 2
\* settings.UPLOAD_MAX_FILE_SIZE_KB * 1024, a deployment setting, in size units
UPLOAD_MAX_FILE_SIZE == 2
\* most clock advances of the token specification
MaxTicks == 3
\* elements of a metadata groups array
MaxGroups == 2
\* changes made to File rows outside the upload
MaxRowChanges == 1
\* getSynapse calls and disconnectSynapse calls followed
MaxGets == 3
MaxDisconnects == 2
\* category requests served one after the other
MaxCategoryRequests == 3
\* MediaListQuerySchema: page and page_size
MIN_PAGE == 1
DEFAULT_PAGE == 1
MIN_PAGE_SIZE == 1
MAX_PAGE_SIZE == 100
DEFAULT_PAGE_SIZE == 10
\* settings.ACCESS_TOKEN_EXPIRE_MINUTES, the default
DEFAULT_EXPIRES_MINUTES == 30
\* jwt.sign reads "<n>m" as n * 60 seconds
SecondsPerMinute == 60

\* a string field that is undefined / absent
NoVal == "<undefined>"
\* a number that is undefined
NoNum == -1

ALGORITHM == "HS256"
SECRET == "server-secret"

VARIABLES
  \* ---- one request through the gate and doUpload ----
  pc,          \* where the request is
  route,       \* "upload" (handler doUpload) or "gated" (any other gated route)
  roles,       \* the argument S of requireRoles(S) on this route
  header,      \* the Authorization header
  now,         \* the clock when the request is served (seconds)
  user,        \* request.user: <<>> unset, <<claim>> set
  reply,       \* [status, key]; status 0 = nothing sent yet
  detail,      \* the detail field of the response sent, NoVal if none
  thrown,      \* the class of the error the handler threw, NoVal if none
  entered,     \* the route handler was entered
  \* ---- doUpload ----
  cfgAllowed,  \* settings.UPLOAD_ALLOWED_FILE_TYPES
  debug,       \* process.env.DEBUG === "true"
  environment, \* settings.ENVIRONMENT
  stored,      \* the role and disabled columns of the prisma.user row "u1"
  parts,       \* the parts of the multipart stream consumed so far
  collected,   \* collectPartsFromMultipart has returned
  body,        \* @fastify/multipart's per-request field object (part.fields)
  fields,      \* collectPartsFromMultipart: fields
  files,       \* collectPartsFromMultipart: files, then doUpload's files
  byIndex,     \* collectPartsFromMultipart: filesByIndex
  dbUserId,    \* user.id found by uid, NoNum before
  calls,       \* storage-network calls made: getStorageInfo, createContext
  sel,         \* providerId, the directory fetched, storageInfoJson, dataSetId
  ctx,         \* the upload context: [state, providerId, dataSetId]
  upl,         \* per file: the state of its ctx.upload promise
  ucalls,      \* per file: how often ctx.upload was invoked for it
  results,     \* per file: the pieceCid its upload resolved to
  cre,         \* per file: the state of its prisma.file.create promise
  records,     \* the File table rows created
  \* ---- the read endpoints ----
  listed,      \* the last reply of GET /media/list: <<>> or <<reply>>
  info,        \* the last reply of GET /media/storage-info: <<>> or <<reply>>
  rowChanges,  \* how many changes were made to File rows outside the upload
  \* ---- the token specification ----
  jpc, jclaim, jopt, jtok, jnow, jticks, jres, jalt,
  \* ---- the metadata specification ----
  npc,         \* "idle", then "done" once normalizeMetadataGroups was called
  nmeta,       \* its argument: a parsed metadata object
  nout,        \* its outcome: <<>> before, then <<[ok, groups]>>
  \* ---- the Synapse client specification ----
  privateKey,       \* process.env.SYNAPSE_PRIVATE_KEY is set
  synapseInstance,  \* the singleton: NoNum (null) or an instance
  initPromise,      \* NoNum (null) or the initialization in flight
  inits,            \* per Synapse.create call: "pending", "ok", "failed"
  gets,             \* per getSynapse call: what it returned
  disconnects,      \* disconnectSynapse calls so far
  released,         \* disconnectSynapse returned, no getSynapse call since
  \* ---- the login specification ----
  lpc,         \* where POST /auth/admin/login is
  lbody,       \* its body: [username, password]
  ltime,       \* the clock when it is served
  lrow,        \* the user row findFirst gave: <<>> or <<row>>
  lreply,      \* its reply: [status, key, token]
  lastLogin,   \* per user id: last_login_at and last_login_ip
  \* ---- the category specification ----
  categories,  \* the prisma.category rows
  cfiles,      \* per File row: its category_id, NoNum if null
  cpc,         \* "idle", or the await the DELETE transaction is at
  creq,        \* the category request last begun: [kind, uid, name]
  cbefore,     \* categories and cfiles when that request began
  creply,      \* its reply
  cops,        \* category requests begun so far
  \* ---- the user specification: two POST /users at the same time ----
  userRows,    \* the prisma.user rows: [username, email]
  wpc,         \* per request: "idle", "check", "write", "done"
  wreq,        \* per request: its body [username, email]
  wreply,      \* per request: its reply
  wviolated    \* the requests whose write broke a unique constraint

reqVars ==
  <<route, roles, header, now, cfgAllowed, debug, environment, stored>>
collectVars == <<parts, collected, body, fields, files, byIndex>>
storeVars == <<dbUserId, calls, sel, ctx, upl, ucalls, results, cre, records>>
upVars == <<parts, collected, body, fields, files, byIndex,
            dbUserId, calls, sel, ctx, upl, ucalls, results, cre, records>>
mainVars == <<pc, route, roles, header, now, cfgAllowed, debug, environment, stored,
   user, reply, detail, thrown, entered,
              parts, collected, body, fields, files, byIndex,
              dbUserId, calls, sel, ctx, upl, ucalls, results, cre, records,
              listed, info, rowChanges>>
readVars == <<listed, info, rowChanges>>
jwtVars == <<jpc, jclaim, jopt, jtok, jnow, jticks, jres, jalt>>
normVars == <<npc, nmeta, nout>>
synVars ==
  <<privateKey, synapseInstance, initPromise, inits, gets, disconnects,
    released>>
loginVars == <<lpc, lbody, ltime, lrow, lreply, lastLogin>>
catVars == <<categories, cfiles, cpc, creq, cbefore, creply, cops>>
uniqVars == <<userRows, wpc, wreq, wreply, wviolated>>
sideVars == <<synVars, loginVars, catVars, uniqVars>>
outsideSyn == <<mainVars, jwtVars, normVars, loginVars, catVars, uniqVars>>
outsideLogin == <<mainVars, jwtVars, normVars, synVars, catVars, uniqVars>>
outsideCat == <<mainVars, jwtVars, normVars, synVars, loginVars, uniqVars>>
outsideUniq == <<mainVars, jwtVars, normVars, synVars, loginVars, catVars>>
vars == <<pc, route, roles, header, now, cfgAllowed, debug, environment, stored,
   user, reply, detail, thrown, entered,
          parts, collected, body, fields, files, byIndex,
          dbUserId, calls, sel, ctx, upl, ucalls, results, cre, records,
          listed, info, rowChanges,
          jpc, jclaim, jopt, jtok, jnow, jticks, jres, jalt,
          npc, nmeta, nout,
          privateKey, synapseInstance, initPromise, inits, gets, disconnects,
          released,
          lpc, lbody, ltime, lrow, lreply, lastLogin,
          categories, cfiles, cpc, creq, cbefore, creply, cops,
          userRows, wpc, wreq, wreply, wviolated>>

(***************************************************************************)
(* Strings: String.prototype.toLowerCase over the strings of the model.    *)
(***************************************************************************)
ToLower(s) ==
  CASE s = "Admin" -> "admin"
    [] s = "ADMIN" -> "admin"
    [] s = "Uploader" -> "uploader"
    [] s = "Bearer" -> "bearer"
    [] s = "BEARER" -> "bearer"
    [] s = "Basic" -> "basic"
    [] s = "Alice@X.io" -> "alice@x.io"
    [] s = "Image/PNG" -> "image/png"
    [] s = "Video/MP4" -> "video/mp4"
    [] OTHER -> s

(***************************************************************************)
(* jsonwebtoken.  A token is its header's alg, its payload and a           *)
(* signature; the signature is an ideal MAC of (key, alg, payload).        *)
(***************************************************************************)
Mac(key, alg, payload) == [key |-> key, alg |-> alg, payload |-> payload]

\* jwt.sign(payload, secret, {algorithm, expiresIn: "<m>m"}) at clock t
JwtSign(payload, secret, alg, minutes, t) ==
  LET p == [sub |-> payload.sub, role |-> payload.role,
            username |-> payload.username,
            iat |-> t, exp |-> t + minutes * SecondsPerMinute]
  IN [alg |-> alg, payload |-> p, sig |-> Mac(secret, alg, p)]

\* jwt.verify(token, secret, {algorithms}) at clock t: <<payload>>, or <<>>
\* where the library throws
JwtVerify(token, secret, algorithms, t) ==
  IF token.alg \notin algorithms THEN <<>>
  ELSE IF token.sig # Mac(secret, token.alg, token.payload) THEN <<>>
  ELSE IF token.payload.exp # NoNum /\ t >= token.payload.exp THEN <<>>
  ELSE <<token.payload>>

\* sign(payload, options); minutes = NoNum is "no expiresInMinutes option"
sign(payload, minutes, t) ==
  LET expiresInMinutes == IF minutes = NoNum THEN DEFAULT_EXPIRES_MINUTES
                          ELSE minutes
  IN JwtSign(payload, SECRET, ALGORITHM, expiresInMinutes, t)

verify_NoExpiry(token, t) ==
  LET decoded == JwtVerify(token, SECRET, {ALGORITHM}, 0)
  IN IF decoded = <<>> \/ decoded[1].sub \in {NoVal, ""} THEN <<>>
     ELSE <<decoded[1]>>

\* verify(token): <<claim>>, or <<>> for null
verify(token, t) ==
  LET decoded == JwtVerify(token, SECRET, {ALGORITHM}, t)
  IN IF decoded = <<>> \/ decoded[1].sub \in {NoVal, ""} THEN <<>>
     ELSE <<[sub |-> decoded[1].sub, role |-> decoded[1].role,
             username |-> decoded[1].username,
             iat |-> decoded[1].iat, exp |-> decoded[1].exp]>>

\* payloadFromUser(user)
payloadFromUser(u) == [sub |-> u.uid, role |-> u.role, username |-> u.username]

(***************************************************************************)
(* The Authorization header: absent, or its words (the scheme and what     *)
(* follows it, split at white space).                                      *)
(***************************************************************************)
NoHeader == [present |-> FALSE, scheme |-> "", creds |-> <<>>]
Hdr(scheme, creds) == [present |-> TRUE, scheme |-> scheme, creds |-> creds]

extractBearerToken_AnyScheme(h) ==
  IF ~h.present THEN <<>>
  ELSE IF 1 + Len(h.creds) # 2 THEN <<>>
  ELSE <<h.creds[1]>>

\* extractBearerToken(request): <<token>>, or <<>> for null
extractBearerToken(h) ==
  IF ~h.present THEN <<>>
  ELSE IF 1 + Len(h.creds) # 2 \/ ToLower(h.scheme) # "bearer" THEN <<>>
  ELSE <<h.creds[1]>>

(***************************************************************************)
(* The requests of the model: who calls, with which header, when.          *)
(***************************************************************************)
\* the columns of a user row an administrator may change after a token was
\* issued: POST /users (role), PATCH /users/:uid/disabled
StoredAsIssued == [role |-> "admin", disabled |-> FALSE]
StoredStates == [role : {"admin", "user"}, disabled : BOOLEAN]

\* prisma.user rows: uid "u1" exists, "u2" does not
DbUsers ==
  {[uid |-> "u1", id |-> 1, role |-> stored.role, username |-> "alice",
    disabled |-> stored.disabled]}

Claim(sub, role) == [sub |-> sub, role |-> role, username |-> "alice"]

\* claims the login handler signed at clock 0 with the default lifetime
IssuedClaims ==
  {Claim("u1", "admin"), Claim("u1", "Admin"), Claim("u1", "uploader"),
   Claim("u1", NoVal), Claim("u2", "admin")}

IssuedTokens == {sign(c, NoNum, 0) : c \in IssuedClaims}

AdminToken == sign(Claim("u1", "admin"), NoNum, 0)
UploaderToken == sign(Claim("u1", "uploader"), NoNum, 0)

\* tokens nobody was issued
ForgedTokens ==
  { \* the uploader's token with the role rewritten, signature kept
    [UploaderToken EXCEPT !.payload.role = "admin"],
    \* signed with a key that is not the server's
    JwtSign(Claim("u1", "admin"), "attacker-key", ALGORITHM,
            DEFAULT_EXPIRES_MINUTES, 0),
    \* unsigned, alg "none"
    [alg |-> "none", payload |-> AdminToken.payload,
     sig |-> Mac("", "none", AdminToken.payload)],
    \* the server's key under another algorithm
    JwtSign(Claim("u1", "admin"), SECRET, "HS512", DEFAULT_EXPIRES_MINUTES, 0),
    \* the server's key, no sub in the payload
    JwtSign(Claim(NoVal, "admin"), SECRET, ALGORITHM, DEFAULT_EXPIRES_MINUTES, 0) }

Headers ==
  {NoHeader}
    \cup {Hdr("Bearer", <<t>>) : t \in IssuedTokens \cup ForgedTokens}
    \cup {Hdr("bearer", <<UploaderToken>>), Hdr("Basic", <<AdminToken>>),
          Hdr("Bearer", <<>>), Hdr("Bearer", <<AdminToken, AdminToken>>)}

\* the request is served just before, or at, the expiry of the issued tokens
RequestClock ==
  {DEFAULT_EXPIRES_MINUTES * SecondsPerMinute - 1,
   DEFAULT_EXPIRES_MINUTES * SecondsPerMinute}

\* requireAdmin = requireRoles(["admin"])
AdminRoles == <<"admin">>
\* arguments of requireRoles on the other gated routes of the model
RoleLists == {AdminRoles, <<"Admin", "uploader">>, <<"uploader", "">>}

NoReply == [status |-> 0, key |-> ""]
Reply(status, key) == [status |-> status, key |-> key]

(***************************************************************************)
(* Errors and the error handler (core/exceptions.ts,                       *)
(* middleware/exception.ts).                                               *)
(***************************************************************************)
\* settings.ENVIRONMENT
DEVELOPMENT == "development"
PRODUCTION == "production"
TESTING == "testing"
Environments == {DEVELOPMENT, PRODUCTION, TESTING}

\* an error: its class, its message (a lookup key for the API exceptions),
\* and for the API exceptions the status code and the detail
BaseAPIException(message, statusCode, errDetail) ==
  [class |-> "BaseAPIException", message |-> message, statusCode |-> statusCode,
   detail |-> errDetail]
BadRequestError(message) == BaseAPIException(message, 400, NoVal)
UnauthorizedError(message) == BaseAPIException(message, 401, NoVal)
ForbiddenError(message) == BaseAPIException(message, 403, NoVal)
\* any other error
PlainError(message) ==
  [class |-> "Error", message |-> message, statusCode |-> 0, detail |-> NoVal]
\* the errors the database client throws
DbErrors ==
  {[class |-> "PrismaClientKnownRequestError", message |-> "driver error text",
    statusCode |-> 0, detail |-> NoVal],
   [class |-> "PrismaClientInitializationError", message |-> "driver error text",
    statusCode |-> 0, detail |-> NoVal],
   PlainError("driver error text")}
\* the detail doUpload attaches to the 502: { reason, cause }
UploadFailedDetail == "{reason, cause}"

errorHandler_AlwaysDetail(error, dbg) ==
  IF error.class = "BaseAPIException"
    THEN [status |-> error.statusCode, key |-> error.message,
          detail |-> error.detail]
  ELSE IF error.class = "PrismaClientKnownRequestError"
    THEN [status |-> 500, key |-> "error.dbOperationFailed",
          detail |-> error.message]
  ELSE IF error.class = "PrismaClientInitializationError"
    THEN [status |-> 500, key |-> "error.dbConnectionFailed",
          detail |-> error.message]
  ELSE [status |-> 500, key |-> "error.internalServerError",
        detail |-> error.message]

\* errorHandler(error, request, reply): the response it sends, dbg being
\* process.env.DEBUG === "true"
errorHandler(error, dbg) ==
  IF error.class = "BaseAPIException"
    THEN [status |-> error.statusCode, key |-> error.message,
          detail |-> error.detail]
  ELSE IF error.class = "PrismaClientKnownRequestError"
    THEN [status |-> 500, key |-> "error.dbOperationFailed",
          detail |-> IF dbg THEN error.message ELSE NoVal]
  ELSE IF error.class = "PrismaClientInitializationError"
    THEN [status |-> 500, key |-> "error.dbConnectionFailed",
          detail |-> IF dbg THEN error.message ELSE NoVal]
  ELSE [status |-> 500, key |-> "error.internalServerError",
        detail |-> IF dbg THEN error.message ELSE NoVal]

\* a handler or hook sends a reply itself: no detail
Send(status, key) ==
  reply' = Reply(status, key) /\ detail' = NoVal /\ UNCHANGED thrown

\* a handler throws: the error handler answers
Throw(error) ==
  LET response == errorHandler(error, debug)
  IN /\ reply' = Reply(response.status, response.key)
     /\ detail' = response.detail
     /\ thrown' = error.class

(***************************************************************************)
(* The gate: preHandler [authToken, requireAuth, requireRoles(S)].  The    *)
(* framework runs the hooks in order and enters the handler only if none   *)
(* of them sent a reply.                                                   *)
(***************************************************************************)
authTokenUser_Unverified(h, t) ==
  LET token == extractBearerToken(h)
  IN IF token = <<>> THEN <<>> ELSE <<token[1].payload>>

\* request.user after authToken
authTokenUser(h, t) ==
  LET token == extractBearerToken(h)
  IN IF token = <<>> THEN <<>> ELSE verify(token[1], t)

\* authToken: sets request.user or leaves it unset; never replies
AuthToken ==
  /\ pc = "authToken"
  /\ user' = authTokenUser(header, now)
  /\ pc' = "requireAuth"
  /\ UNCHANGED <<jwtVars, normVars, sideVars, readVars, reqVars, reply, detail, thrown, entered, upVars>>

\* requireAuth lets the request through
requireAuthPasses(u) == u # <<>>

RequireAuth ==
  /\ pc = "requireAuth"
  /\ IF requireAuthPasses(user)
       THEN /\ pc' = "requireRoles"
            /\ UNCHANGED <<reply, detail, thrown>>
       ELSE /\ pc' = "done"
            /\ Send(401, "auth.loginRequired")
  /\ UNCHANGED <<jwtVars, normVars, sideVars, readVars, reqVars, user, entered, upVars>>

requireRolesPasses_CaseSensitive(S, u) ==
  (IF u.role = NoVal THEN "" ELSE u.role) \in {S[i] : i \in DOMAIN S}

\* requireRoles(S) lets the request of claim u through
requireRolesPasses(S, u) ==
  LET set == {ToLower(S[i]) : i \in DOMAIN S}
      role == ToLower(IF u.role = NoVal THEN "" ELSE u.role)
  IN role \in set

RequireRoles ==
  /\ pc = "requireRoles"
  /\ IF requireRolesPasses(roles, user[1])
       THEN /\ pc' = "handler"
            /\ UNCHANGED <<reply, detail, thrown>>
       ELSE /\ pc' = "done"
            /\ Send(403, "auth.permissionDenied")
  /\ UNCHANGED <<jwtVars, normVars, sideVars, readVars, reqVars, user, entered, upVars>>

\* the handler of a gated route other than the upload
GatedHandler ==
  /\ pc = "handler"
  /\ route = "gated"
  /\ entered' = TRUE
  /\ Send(200, "success")
  /\ pc' = "done"
  /\ UNCHANGED <<jwtVars, normVars, sideVars, readVars, reqVars, user, upVars>>

(***************************************************************************)
(* Multipart fields and their parsing (utils/multipart.ts).                *)
(***************************************************************************)
\* String.prototype.trim over the strings of the model
Trim(s) ==
  CASE s = "  " -> ""
    [] s = " a " -> "a"
    [] s = " custom " -> "custom"
    [] s = " 1 " -> "1"
    [] s = " alice " -> "alice"
    [] OTHER -> s

\* Number.parseInt(s, 10) over the strings of the model; NoNum is NaN
ParseInt(s) ==
  CASE s = "1" -> 1
    [] s = "2" -> 2
    [] s = "7" -> 7
    [] s = "0" -> 0
    [] OTHER -> NoNum

FieldNames ==
  {"providerId", "name", "metadata", "name_0", "name_1", "name_2",
   "metadata_0", "metadata_1", "metadata_2"}

\* `name_${i}` and `metadata_${i}`
NameField(i) ==
  CASE i = 0 -> "name_0" [] i = 1 -> "name_1" [] i = 2 -> "name_2"
    [] OTHER -> "name_n"
MetadataField(i) ==
  CASE i = 0 -> "metadata_0" [] i = 1 -> "metadata_1" [] i = 2 -> "metadata_2"
    [] OTHER -> "metadata_n"

\* the field map of collectPartsFromMultipart: name -> value, NoVal if absent
NoFields == [k \in FieldNames |-> NoVal]
\* the framework's field object: name -> the values of the parts so named
NoBody == [k \in FieldNames |-> <<>>]

\* getFieldPart(fields, fieldName) on the collector's field map
getFieldPart(f, k) == IF k \in DOMAIN f THEN f[k] ELSE NoVal

\* getFieldPart(part.fields, fieldName): an array of parts has no "type"
getBodyPart(b, k) ==
  IF k \in DOMAIN b /\ Len(b[k]) = 1 THEN b[k][1] ELSE NoVal

\* parseMultipartStringField on a value getFieldPart returned
parseStringValue(raw) ==
  IF raw = NoVal THEN NoVal
  ELSE IF Trim(raw) = "" THEN NoVal ELSE Trim(raw)

\* parseMultipartNumberField(fields, fieldName); NoNum is undefined
parseMultipartNumberField(f, k) ==
  LET raw == getFieldPart(f, k)
  IN IF raw = NoVal THEN NoNum ELSE ParseInt(Trim(raw))

\* metadata texts of the model and what JSON.parse makes of them
Item(name, value, type) ==
  [obj |-> TRUE, name |-> name, value |-> value, type |-> type]
\* an element of groups that is not an object (null, a number, a string)
NotAnObject == [obj |-> FALSE, name |-> NoVal, value |-> NoVal, type |-> NoVal]
\* a property value that is not a string (a number, null, an object)
NonString == "<non-string>"
\* typeof v === "string"
IsString(v) == v \notin {NoVal, NonString}
MetaGood == "{groups:[{name:' a ',value:'b'}]}"
MetaBad == "{groups:[{name:'a',value:'b',type:'t'},{name:'  ',value:'v'}]}"
MetaNoGroups == "{title:'x'}"
MetaNotJson == "not json"

\* a parsed object: hasGroups says that groups is an array
EmptyObject == [hasGroups |-> FALSE, groups |-> <<>>]

\* parseMultipartMetadata on a value getFieldPart returned
parseMetadataValue(raw) ==
  CASE raw = MetaGood ->
         [hasGroups |-> TRUE, groups |-> <<Item(" a ", "b", NoVal)>>]
    [] raw = MetaBad ->
         [hasGroups |-> TRUE,
          groups |-> <<Item("a", "b", "t"), Item("  ", "v", NoVal)>>]
    [] OTHER -> EmptyObject

\* one entry of the result of normalizeMetadataGroups
normalizeItem(it) ==
  [name |-> IF IsString(it.name) THEN Trim(it.name) ELSE "",
   type |-> IF IsString(it.type) THEN it.type ELSE "input",
   value |-> IF IsString(it.value) THEN Trim(it.value) ELSE ""]

\* normalizeMetadataGroups keeping the valid entries of the array
normalizeMetadataGroups_KeepValid(m) ==
  IF ~m.hasGroups THEN [ok |-> TRUE, groups |-> <<>>]
  ELSE LET valid(it) == /\ it.obj
                        /\ normalizeItem(it).name # ""
                        /\ normalizeItem(it).value # ""
           kept == SelectSeq(m.groups, valid)
       IN [ok |-> TRUE, groups |-> [i \in DOMAIN kept |-> normalizeItem(kept[i])]]

\* normalizeMetadataGroups(metadata): ok = FALSE where it throws
normalizeMetadataGroups(m) ==
  IF ~m.hasGroups THEN [ok |-> TRUE, groups |-> <<>>]
  ELSE IF \E i \in DOMAIN m.groups :
            \/ ~m.groups[i].obj
            \/ normalizeItem(m.groups[i]).name = ""
            \/ normalizeItem(m.groups[i]).value = ""
       THEN [ok |-> FALSE, groups |-> <<>>]
       ELSE [ok |-> TRUE,
             groups |-> [i \in DOMAIN m.groups |-> normalizeItem(m.groups[i])]]

mergePartFieldsInto_Last(target, b) ==
  [k \in DOMAIN target |->
     IF k \in DOMAIN b /\ Len(b[k]) > 0 THEN b[k][Len(b[k])] ELSE target[k]]

\* mergePartFieldsInto(target, part.fields): an array gives its first value
mergePartFieldsInto(target, b) ==
  [k \in DOMAIN target |->
     IF k \in DOMAIN b /\ Len(b[k]) > 0 THEN b[k][1] ELSE target[k]]

\* the index of a file part named file_<i>, NoNum for any other name
FileIndex(fn) ==
  CASE fn = "file_0" -> 0
    [] fn = "file_1" -> 1
    [] fn = "file_2" -> 2
    [] OTHER -> NoNum

Indices == {0, 1, 2}
NoIndexed == [i \in Indices |-> <<>>]

\* Array.from(filesByIndex.entries()).sort(...).map(f): ascending index
RECURSIVE SortedFrom(_, _)
SortedFrom(m, i) ==
  IF i \notin DOMAIN m THEN <<>> ELSE m[i] \o SortedFrom(m, i + 1)

collectedFiles_KeepFlat(fs, m) == fs \o SortedFrom(m, 0)

\* the files collectPartsFromMultipart returns
collectedFiles(fs, m) ==
  IF \E i \in DOMAIN m : m[i] # <<>> THEN SortedFrom(m, 0) ELSE fs

(***************************************************************************)
(* doUpload (api/v1/endpoints/media.ts), one action per stretch of code    *)
(* between two awaits.                                                     *)
(***************************************************************************)
\* the parts a client sends: the n-th part of a stream carries file name
\* OrigName(n) and payload n
OrigName(n) ==
  CASE n = 1 -> "orig1" [] n = 2 -> "orig2" [] n = 3 -> "orig3"
    [] n = 4 -> "orig4" [] OTHER -> "orig5"

FilePartNames == {"file", "file_0", "file_1"}
FilePartSizes == {1, UPLOAD_MAX_FILE_SIZE + 1}
FilePartTypes == {"Image/PNG", "text/html"}
FieldPart(name, value) ==
  [type |-> "field", fieldname |-> name, value |-> value, size |-> 0,
   mimetype |-> NoVal]
FilePart(name, size, mime) ==
  [type |-> "file", fieldname |-> name, value |-> NoVal, size |-> size,
   mimetype |-> mime]
FieldParts ==
  ({"providerId"} \X {"1", "2", "7", "abc"})
    \cup ({"metadata"} \X {MetaGood, MetaBad})
    \cup ({"metadata_0"} \X {MetaBad})
    \cup ({"name_1"} \X {" custom "})

AllowedConfigs ==
  {[kind |-> "star", list |-> <<>>],
   [kind |-> "array", list |-> <<"image/png", "video/mp4">>]}

\* isAllowedMime(mime) under settings.UPLOAD_ALLOWED_FILE_TYPES = allowed
isAllowedMime(allowed, mime) ==
  IF allowed.kind = "star" THEN TRUE
  ELSE IF allowed.kind = "array"
    THEN \E i \in DOMAIN allowed.list : ToLower(allowed.list[i]) = ToLower(mime)
    ELSE FALSE

\* the storage network's provider directory, as getStorageInfo returns it
Provider(id, name, active, url) ==
  [id |-> id, name |-> name, description |-> "storage provider",
   active |-> active, serviceProvider |-> "0xsp", pdpUrl |-> url]
Directories ==
  {<<Provider(1, "alpha", TRUE, "https://alpha"), Provider(2, "beta", FALSE, NoVal)>>,
   <<Provider(1, "alpha-renamed", FALSE, "https://alpha"),
     Provider(2, "beta", TRUE, "https://beta")>>}

\* serializeProviderInfo(provider)
serializeProviderInfo_BlankUrl(p) ==
  [id |-> p.id, name |-> p.name, description |-> p.description,
   isActive |-> p.active, serviceProvider |-> p.serviceProvider,
   pdp |-> [serviceURL |-> ""]]

serializeProviderInfo(p) ==
  [id |-> p.id, name |-> p.name, description |-> p.description,
   isActive |-> p.active, serviceProvider |-> p.serviceProvider,
   pdp |-> [serviceURL |-> IF p.pdpUrl = NoVal THEN "" ELSE p.pdpUrl]]

\* storageInfo.providers.find((p) => p.id === providerId): <<p>> or <<>>
findProvider(dir, id) ==
  IF \E i \in DOMAIN dir : dir[i].id = id
    THEN <<dir[CHOOSE i \in DOMAIN dir :
                 /\ dir[i].id = id
                 /\ \A j \in DOMAIN dir : dir[j].id = id => i <= j]>>
    ELSE <<>>

providerUsable_IgnoreActive(found) == found # <<>>

\* the provider found may be uploaded to
providerUsable(found) == found # <<>> /\ found[1].active

\* the upload context: dataSetId is ctx.dataSetId as it is now, atCreate
\* what it was when createContext returned
NoCtx == [state |-> "none", providerId |-> NoNum, dataSetId |-> NoNum,
          atCreate |-> NoNum]
NoSel == [providerId |-> NoNum, dir |-> <<>>, snapshot |-> <<>>,
          dataSetId |-> NoNum]
NoCalls == [getStorageInfo |-> 0, createContext |-> 0]

\* the content identifier the storage network gives a payload
PieceCid(content) == 100 + content
\* the data set the storage network groups a provider's uploads into
DataSetOf(id) == 50 + id

\* const synapse = await getSynapse(): null, or the client
GetSynapse ==
  /\ pc = "handler"
  /\ route = "upload"
  /\ entered' = TRUE
  /\ \E synapse \in BOOLEAN :
       IF synapse
         THEN pc' = "collect" /\ UNCHANGED <<reply, detail, thrown>>
         ELSE pc' = "done" /\ Throw(BaseAPIException("media.storageUnavailable", 503, NoVal))
  /\ UNCHANGED <<jwtVars, normVars, sideVars, readVars, reqVars, user, upVars>>

\* for await (const part of parts): a field part
CollectField ==
  /\ pc = "collect"
  /\ Len(parts) < MaxParts
  /\ \E p \in FieldParts :
       /\ parts' = Append(parts, FieldPart(p[1], p[2]))
       /\ body' = [body EXCEPT ![p[1]] = Append(@, p[2])]
       /\ fields' = [fields EXCEPT ![p[1]] = p[2]]
  /\ UNCHANGED <<jwtVars, normVars, sideVars, readVars, pc, reqVars, user, reply, detail, thrown, entered, collected, files,
                 byIndex,
                 storeVars>>

\* for await (const part of parts): a file part; part.toBuffer() throws
\* FST_REQ_FILE_TOO_LARGE on a payload over the multipart fileSize limit,
\* which doUpload answers with 400
CollectFile ==
  /\ pc = "collect"
  /\ Len(parts) < MaxParts
  /\ \E fn \in FilePartNames, size \in FilePartSizes, mime \in FilePartTypes :
       LET n == Len(parts) + 1
           entry == [size |-> size, filename |-> OrigName(n),
                     mimetype |-> mime, content |-> n]
           index == FileIndex(fn)
       IN /\ parts' = Append(parts, FilePart(fn, size, mime))
          /\ IF size > UPLOAD_MAX_FILE_SIZE
               THEN /\ pc' = "done"
                    /\ Throw(BadRequestError("media.fileTooLarge"))
                    /\ UNCHANGED <<fields, files, byIndex>>
               ELSE /\ pc' = pc
                    /\ UNCHANGED <<reply, detail, thrown>>
                    /\ IF index # NoNum /\ index >= 0
                         THEN /\ byIndex' = [byIndex EXCEPT ![index] = <<entry>>]
                              /\ UNCHANGED <<files, fields>>
                         ELSE /\ files' = Append(files, entry)
                              /\ fields' = mergePartFieldsInto(fields, body)
                              /\ byIndex' = byIndex
  /\ UNCHANGED <<jwtVars, normVars, sideVars, readVars, reqVars, user, entered, collected, body, storeVars>>

\* "name_0" in fields || "metadata_0" in fields
isIndexedFormat(f) == f["name_0"] # NoVal \/ f["metadata_0"] # NoVal

validationError_NoCount(allowed, fs, f) ==
  IF Len(fs) = 0 THEN "media.fileRequired"
  ELSE IF \E i \in DOMAIN fs : fs[i].size > UPLOAD_MAX_FILE_SIZE
    THEN "media.fileTooLarge"
  ELSE IF \E i \in DOMAIN fs : ~isAllowedMime(allowed, Trim(fs[i].mimetype))
    THEN "media.fileTypeNotAllowed"
  ELSE "ok"

validationError_NoFileRequired(allowed, fs, f) ==
  IF Len(fs) > UPLOAD_MAX_FILES THEN "media.fileCountExceeded"
  ELSE IF \E i \in DOMAIN fs : ~isAllowedMime(allowed, Trim(fs[i].mimetype))
    THEN "media.fileTypeNotAllowed"
  ELSE "ok"

\* the checks of doUpload between the collector and the user lookup:
\* the key of the BadRequestError thrown, or "ok"
validationError(allowed, fs, f) ==
  LET bad(i) == \/ fs[i].size > UPLOAD_MAX_FILE_SIZE
                \/ ~isAllowedMime(allowed, Trim(fs[i].mimetype))
  IN IF Len(fs) = 0 THEN "media.fileRequired"
     ELSE IF Len(fs) > UPLOAD_MAX_FILES THEN "media.fileCountExceeded"
     ELSE IF \E i \in DOMAIN fs : bad(i)
       THEN LET i == CHOOSE i \in DOMAIN fs :
                       bad(i) /\ \A j \in DOMAIN fs : bad(j) => i <= j
            IN IF fs[i].size > UPLOAD_MAX_FILE_SIZE THEN "media.fileTooLarge"
               ELSE "media.fileTypeNotAllowed"
     ELSE IF /\ ~normalizeMetadataGroups(
                   parseMetadataValue(getFieldPart(f, "metadata"))).ok
             /\ ~isIndexedFormat(f)
       THEN "media.metadataNameValueRequired"
     ELSE "ok"

\* the stream ends: the collector returns, doUpload validates and, if all
\* is well, asks prisma for the user
CollectEnd ==
  /\ pc = "collect"
  /\ LET fs == collectedFiles(files, byIndex)
         err == validationError(cfgAllowed, fs, fields)
     IN /\ files' = fs
        /\ collected' = TRUE
        /\ IF err = "ok"
             THEN pc' = "findUser" /\ UNCHANGED <<reply, detail, thrown>>
             ELSE pc' = "done" /\ Throw(BadRequestError(err))
  /\ UNCHANGED <<jwtVars, normVars, sideVars, readVars, reqVars, user, entered, parts, body, fields, byIndex, storeVars>>

findUserByUid_ActiveOnly(uid) ==
  IF \E u \in DbUsers : u.uid = uid /\ ~u.disabled
    THEN <<CHOOSE u \in DbUsers : u.uid = uid /\ ~u.disabled>>
    ELSE <<>>

findUserByUid_AnyRow(uid) == <<CHOOSE u \in DbUsers : TRUE>>

\* prisma.user.findUnique({where: {uid}}): <<row>> or <<>>
findUserByUid(uid) ==
  IF \E u \in DbUsers : u.uid = uid
    THEN <<CHOOSE u \in DbUsers : u.uid = uid>>
    ELSE <<>>

\* the user lookup returns (or the database fails); doUpload reads
\* providerId and calls getStorageInfo
FindUser ==
  /\ pc = "findUser"
  /\ \E dbOk \in BOOLEAN, dbError \in DbErrors :
       LET row == findUserByUid(user[1].sub)
           providerId == parseMultipartNumberField(fields, "providerId")
       IN IF ~dbOk
            THEN /\ pc' = "done"
                 /\ Throw(dbError)
                 /\ UNCHANGED <<dbUserId, calls, sel>>
          ELSE IF row = <<>>
            THEN /\ pc' = "done"
                 /\ Throw(UnauthorizedError("auth.userNotFound"))
                 /\ UNCHANGED <<dbUserId, calls, sel>>
          ELSE IF providerId = NoNum
            THEN /\ pc' = "done"
                 /\ Throw(BadRequestError("media.providerIdRequired"))
                 /\ dbUserId' = row[1].id
                 /\ UNCHANGED <<calls, sel>>
          ELSE /\ pc' = "getStorageInfo"
               /\ UNCHANGED <<reply, detail, thrown>>
               /\ dbUserId' = row[1].id
               /\ sel' = [sel EXCEPT !.providerId = providerId]
               /\ calls' = [calls EXCEPT !.getStorageInfo = @ + 1]
  /\ UNCHANGED <<jwtVars, normVars, sideVars, readVars, reqVars, user, entered, collectVars, ctx, upl, ucalls, results,
                 cre, records>>

contextCallsAfterCheck_Unchecked(usable) == 1

\* createContext is called only once the provider check has passed
contextCallsAfterCheck(usable) == IF usable THEN 1 ELSE 0

\* getStorageInfo returns the live directory (or rejects); doUpload checks
\* the provider and calls createContext
GetStorageInfo ==
  /\ pc = "getStorageInfo"
  /\ \/ /\ pc' = "done"
        /\ Throw(PlainError("storage network error"))
        /\ UNCHANGED <<calls, sel>>
     \/ \E dir \in Directories :
          LET provider == findProvider(dir, sel.providerId)
              usable == providerUsable(provider)
          IN /\ calls' = [calls EXCEPT
                            !.createContext = @ + contextCallsAfterCheck(usable)]
             /\ IF ~usable
                  THEN /\ pc' = "done"
                       /\ Throw(BadRequestError("media.providerInvalidOrInactive"))
                       /\ sel' = [sel EXCEPT !.dir = <<dir>>]
                  ELSE /\ pc' = "createContext"
                       /\ UNCHANGED <<reply, detail, thrown>>
                       /\ sel' = [sel EXCEPT
                                    !.dir = <<dir>>,
                                    !.snapshot =
                                      <<serializeProviderInfo(provider[1])>>]
  /\ UNCHANGED <<jwtVars, normVars, sideVars, readVars, reqVars, user, entered, collectVars, dbUserId, ctx, upl, ucalls,
                 results, cre, records>>

\* the File row doUpload creates for files[i] (i counts from 1; the code's
\* index is i - 1)
recordFor(i, fs, f, b, uid, s, res) ==
  LET customName ==
        IF isIndexedFormat(f)
          THEN parseStringValue(getFieldPart(f, NameField(i - 1)))
          ELSE parseStringValue(getBodyPart(b, "name"))
      defaultNormalized ==
        normalizeMetadataGroups(parseMetadataValue(getFieldPart(f, "metadata")))
      norm ==
        normalizeMetadataGroups(
          parseMetadataValue(getFieldPart(f, MetadataField(i - 1))))
  IN [name |-> IF customName # NoVal THEN customName ELSE fs[i].filename,
      file_type |-> Trim(fs[i].mimetype),
      metadata |-> IF isIndexedFormat(f) THEN norm.groups
                   ELSE defaultNormalized.groups,
      uploader_id |-> uid,
      permission |-> "public",
      deleted_at |-> NoVal,
      synapse_index_id |-> res[i],
      synapse_data_set_id |-> s.dataSetId,
      storage_id |-> s.providerId,
      storage_info |-> s.snapshot[1]]

\* how often doUpload invokes ctx.upload for one file of the batch
uploadsPerFile_Twice == 1 + 1

uploadsPerFile == 1

\* createContext returns (or rejects); doUpload launches every upload
CreateContext ==
  /\ pc = "createContext"
  /\ \/ /\ pc' = "done"
        /\ Throw(BaseAPIException("media.uploadFailed", 502, UploadFailedDetail))
        /\ ctx' = [ctx EXCEPT !.state = "failed"]
        /\ UNCHANGED <<upl, ucalls, results>>
     \/ \E known \in BOOLEAN :
          /\ LET ds == IF known THEN DataSetOf(sel.providerId) ELSE NoNum
             IN ctx' = [state |-> "open", providerId |-> sel.providerId,
                        dataSetId |-> ds, atCreate |-> ds]
          /\ upl' = [i \in DOMAIN files |-> "pending"]
          /\ ucalls' = [i \in DOMAIN files |-> uploadsPerFile]
          /\ results' = [i \in DOMAIN files |-> NoNum]
          /\ pc' = "uploading"
          /\ UNCHANGED <<reply, detail, thrown>>
  /\ UNCHANGED <<jwtVars, normVars, sideVars, readVars, reqVars, user, entered, collectVars, dbUserId, calls, sel, cre,
                 records>>

dataSetIdForBatch_AtCreate(atCreate, afterUploads) == atCreate

\* dataSetIdForBatch = ctx.dataSetId, read after await Promise.all(uploads)
dataSetIdForBatch(atCreate, afterUploads) == afterUploads

createsLaunched_OnFailure(ok, others) == others

createsLaunched_FirstAck(ok, others) == ok

\* Promise.all(uploads) resolved: every upload is acknowledged
createsLaunched(ok, others) == ok /\ others

\* one ctx.upload settles.  Promise.all rejects with the first rejection
\* (doUpload answers 502) and resolves when every upload has resolved
\* (doUpload reads ctx.dataSetId and launches prisma.file.create per file)
UploadSettle ==
  /\ \E i \in DOMAIN upl, ok \in BOOLEAN :
       LET others == \A j \in DOMAIN upl \ {i} : upl[j] = "ok"
           ds == IF ok /\ ctx.dataSetId = NoNum THEN DataSetOf(ctx.providerId)
                 ELSE ctx.dataSetId
       IN /\ upl[i] = "pending"
          /\ upl' = [upl EXCEPT ![i] = IF ok THEN "ok" ELSE "failed"]
          /\ results' = [results EXCEPT
                           ![i] = IF ok THEN PieceCid(files[i].content) ELSE @]
          /\ ctx' = [ctx EXCEPT !.dataSetId = ds]
          /\ IF pc # "uploading"
               THEN UNCHANGED <<pc, reply, detail, thrown, sel, cre>>
             ELSE IF createsLaunched(ok, others)
               THEN /\ pc' = "persisting"
                    /\ UNCHANGED <<reply, detail, thrown>>
                    /\ sel' = [sel EXCEPT
                                 !.dataSetId =
                                   dataSetIdForBatch(ctx.atCreate, ds)]
                    /\ cre' = [j \in DOMAIN files |-> "pending"]
             ELSE IF ~ok
               THEN /\ pc' = "done"
                    /\ Throw(BaseAPIException("media.uploadFailed", 502, UploadFailedDetail))
                    /\ UNCHANGED <<sel, cre>>
             ELSE UNCHANGED <<pc, reply, detail, thrown, sel, cre>>
  /\ UNCHANGED <<jwtVars, normVars, sideVars, readVars, reqVars, user, entered, collectVars, dbUserId, calls, ucalls,
                 records>>

\* one prisma.file.create settles.  Promise.all rejects with the first
\* rejection (a database error, 500) and resolves when every row is created
\* (201)
CreateSettle ==
  /\ \E i \in DOMAIN cre, ok \in BOOLEAN, dbError \in DbErrors :
       /\ cre[i] = "pending"
       /\ cre' = [cre EXCEPT ![i] = IF ok THEN "ok" ELSE "failed"]
       /\ records' =
            IF ok
              THEN Append(records,
                          recordFor(i, files, fields, body, dbUserId, sel, results))
              ELSE records
       /\ IF pc # "persisting"
            THEN UNCHANGED <<pc, reply, detail, thrown>>
          ELSE IF ~ok
            THEN pc' = "done" /\ Throw(dbError)
          ELSE IF \A j \in DOMAIN cre \ {i} : cre[j] = "ok"
            THEN pc' = "done" /\ Send(201, "success.created")
          ELSE UNCHANGED <<pc, reply, detail, thrown>>
  /\ UNCHANGED <<jwtVars, normVars, sideVars, readVars, reqVars, user, entered, collectVars, dbUserId, calls, sel, ctx,
                 upl, ucalls, results>>

(***************************************************************************)
(* The read endpoints of mediaRouter, served at any moment while the       *)
(* upload request is under way, and the File rows changing outside it.     *)
(***************************************************************************)
\* the upload request has begun to create its rows: the read endpoints are
\* followed from here on, the File table being empty before
TableInUse == cre # <<>>

\* GET /storage-info: the provider directory as it is now
StorageInfo ==
  /\ TableInUse
  /\ \E synapse \in BOOLEAN :
       IF ~synapse
         THEN info' = <<[status |-> 503, key |-> "media.storageUnavailable",
                         providers |-> <<>>]>>
         ELSE \/ info' = <<[status |-> 500, key |-> "error.internalServerError",
                            providers |-> <<>>]>>
              \/ \E dir \in Directories :
                   info' = <<[status |-> 200, key |-> "success.list",
                              providers |->
                                [i \in DOMAIN dir |-> serializeProviderInfo(dir[i])]]>>
  /\ UNCHANGED <<jwtVars, normVars, sideVars, pc, reqVars, user, reply, detail, thrown, entered, upVars,
                 listed, rowChanges>>

\* MediaListQuerySchema.safeParse(request.query): a parameter is a number or
\* absent (NoNum)
MediaListQuery(page, pageSize) ==
  [success |-> /\ (page = NoNum \/ page >= MIN_PAGE)
               /\ (pageSize = NoNum
                     \/ (pageSize >= MIN_PAGE_SIZE /\ pageSize <= MAX_PAGE_SIZE)),
   page |-> IF page = NoNum THEN DEFAULT_PAGE ELSE page,
   page_size |-> IF pageSize = NoNum THEN DEFAULT_PAGE_SIZE ELSE pageSize]

\* fileToUploadItem(row) for the row of identity id
fileToUploadItem(id, row) ==
  [id |-> id, name |-> row.name, file_type |-> row.file_type,
   synapse_index_id |-> row.synapse_index_id, storage_id |-> row.storage_id,
   storage_info |-> row.storage_info]

listWhere_AnyPermission(row) == row.deleted_at = NoVal

\* where: { deleted_at: null, permission: "public" }
listWhere(row) == row.deleted_at = NoVal /\ row.permission = "public"

\* the rows a query selects, newest first, each with its identity
selectRows(rows) ==
  LET all == [k \in DOMAIN rows |-> [id |-> k, row |-> rows[k]]]
      keep(r) == listWhere(r.row)
      sel0 == SelectSeq(all, keep)
  IN [j \in DOMAIN sel0 |-> sel0[Len(sel0) + 1 - j]]

\* prisma.file.findMany({where, orderBy: uploaded_at desc, skip, take})
findMany(rows, skip, take) ==
  LET found == selectRows(rows)
      last == IF skip + take < Len(found) THEN skip + take ELSE Len(found)
  IN SubSeq(found, skip + 1, last)

\* the queries of the model: <<page, page_size>>
ListQueries ==
  {<<NoNum, 1>>, <<2, 1>>, <<NoNum, MAX_PAGE_SIZE>>,
   <<NoNum, MAX_PAGE_SIZE + 1>>}

\* GET /list
ListMedia ==
  /\ TableInUse
  /\ \E q \in ListQueries, dbOk \in BOOLEAN :
       LET page == q[1]
           pageSize == q[2]
           parsed == MediaListQuery(page, pageSize)
           list == findMany(records, (parsed.page - 1) * parsed.page_size,
                            parsed.page_size)
           query == [page |-> page, page_size |-> pageSize]
       IN listed' =
            IF ~parsed.success
              THEN <<[query |-> query, status |-> 400,
                      key |-> "validation.invalidParams", data |-> <<>>,
                      total |-> 0]>>
            ELSE IF ~dbOk
              THEN <<[query |-> query, status |-> 500,
                      key |-> "error.dbOperationFailed", data |-> <<>>,
                      total |-> 0]>>
            ELSE <<[query |-> query, status |-> 200, key |-> "success.list",
                    data |-> [j \in DOMAIN list |->
                                fileToUploadItem(list[j].id, list[j].row)],
                    total |-> Len(selectRows(records))]>>
  /\ UNCHANGED <<jwtVars, normVars, sideVars, pc, reqVars, user, reply, detail, thrown, entered, upVars,
                 info, rowChanges>>

\* a row of the File table is made private or marked deleted
RowChange ==
  /\ rowChanges < MaxRowChanges
  /\ rowChanges' = rowChanges + 1
  /\ \E k \in DOMAIN records :
       \/ /\ records[k].permission = "public"
          /\ records' = [records EXCEPT ![k].permission = "private"]
       \/ /\ records[k].deleted_at = NoVal
          /\ records' = [records EXCEPT ![k].deleted_at = "deleted"]
  /\ UNCHANGED <<jwtVars, normVars, sideVars, listed, info, pc, reqVars, user, reply, detail, thrown,
                 entered, collectVars, dbUserId, calls, sel, ctx, upl, ucalls,
                 results, cre>>

(***************************************************************************)
(* The token specification: a claim is signed, the token may be altered    *)
(* once, the clock advances, the token is verified.                        *)
(***************************************************************************)
JClaims ==
  [sub : {"u1", "u2"}, role : {"admin", "uploader", NoVal},
   username : {"alice", NoVal}]
\* the expiresInMinutes option of sign
JOptions == {NoNum, 0, 1}
\* clock advances, in seconds
JSteps ==
  {1, SecondsPerMinute - 1,
   (DEFAULT_EXPIRES_MINUTES - 1) * SecondsPerMinute}
JAlterations == {"payload", "signature", "alg_none", "alg_other", "nosub"}

alter(tok, kind) ==
  CASE kind = "payload" ->
         [tok EXCEPT !.payload.role = IF @ = "admin" THEN "uploader" ELSE "admin"]
    [] kind = "signature" -> [tok EXCEPT !.sig.key = "garbage"]
    [] kind = "alg_none" ->
         [alg |-> "none", payload |-> tok.payload,
          sig |-> Mac("", "none", tok.payload)]
    [] kind = "alg_other" ->
         [alg |-> "HS512", payload |-> tok.payload,
          sig |-> Mac(SECRET, "HS512", tok.payload)]
    [] kind = "nosub" ->
         LET p == [tok.payload EXCEPT !.sub = NoVal]
         IN [alg |-> tok.alg, payload |-> p, sig |-> Mac(SECRET, tok.alg, p)]

JSign ==
  /\ jpc = "idle"
  /\ jtok' = <<sign(payloadFromUser([uid |-> jclaim.sub, role |-> jclaim.role,
                                     username |-> jclaim.username]),
                    jopt, jnow)>>
  /\ jpc' = "issued"
  /\ UNCHANGED <<mainVars, normVars, sideVars, jclaim, jopt, jnow, jticks, jres, jalt>>

JAlter ==
  /\ jpc = "issued"
  /\ jalt = "none"
  /\ \E kind \in JAlterations :
       /\ jalt' = kind
       /\ jtok' = <<alter(jtok[1], kind)>>
  /\ UNCHANGED <<mainVars, normVars, sideVars, jpc, jclaim, jopt, jnow, jticks, jres>>

JTick ==
  /\ jticks < MaxTicks
  /\ \E d \in JSteps : jnow' = jnow + d
  /\ jticks' = jticks + 1
  /\ UNCHANGED <<mainVars, normVars, sideVars, jpc, jclaim, jopt, jtok, jres, jalt>>

JVerify ==
  /\ jpc \in {"issued", "verified"}
  /\ jres' = <<[at |-> jnow, out |-> verify(jtok[1], jnow)]>>
  /\ jpc' = "verified"
  /\ UNCHANGED <<mainVars, normVars, sideVars, jclaim, jopt, jtok, jnow, jticks, jalt>>

(***************************************************************************)
(* The metadata specification: normalizeMetadataGroups is called on a      *)
(* parsed metadata object.                                                 *)
(***************************************************************************)
NItemNames == {NoVal, NonString, "  ", " a "}
NItemValues == {NoVal, "  ", "b"}
NItemTypes == {NoVal, NonString, "t"}
NItems ==
  {NotAnObject}
    \cup {Item(n, v, t) : n \in NItemNames, v \in NItemValues, t \in NItemTypes}
\* metadata objects whose groups is an array of at most MaxGroups elements,
\* and one whose groups is absent or not an array
NMetas ==
  {EmptyObject}
    \cup {[hasGroups |-> TRUE, groups |-> g] :
            g \in UNION {[1..n -> NItems] : n \in 0..MaxGroups}}

NNormalize ==
  /\ npc = "idle"
  /\ nout' = <<normalizeMetadataGroups(nmeta)>>
  /\ npc' = "done"
  /\ UNCHANGED <<mainVars, jwtVars, sideVars, nmeta>>

(***************************************************************************)
(* The Synapse client singleton (getSynapse, disconnectSynapse).  An       *)
(* instance is named by the number of the Synapse.create call that made    *)
(* it, an initialization in flight by the number of its call.              *)
(***************************************************************************)
getSynapsePath_NoMarker(key, instance, promise) ==
  IF ~key THEN "null"
  ELSE IF instance # NoNum THEN "instance"
  ELSE "create"

\* the branch getSynapse takes
getSynapsePath(key, instance, promise) ==
  IF ~key THEN "null"
  ELSE IF instance # NoNum THEN "instance"
  ELSE IF promise # NoNum THEN "promise"
  ELSE "create"

\* what a getSynapse call returned: null, the instance, or a promise
Got(via, ref) == [via |-> via, ref |-> ref]

\* one call of getSynapse, up to its return
getSynapse ==
  /\ Len(gets) < MaxGets
  /\ released' = FALSE
  /\ LET path == getSynapsePath(privateKey, synapseInstance, initPromise)
         p == Len(inits) + 1
     IN CASE path = "null" ->
               /\ gets' = Append(gets, Got("null", NoNum))
               /\ UNCHANGED <<inits, initPromise>>
          [] path = "instance" ->
               /\ gets' = Append(gets, Got("instance", synapseInstance))
               /\ UNCHANGED <<inits, initPromise>>
          [] path = "promise" ->
               /\ gets' = Append(gets, Got("promise", initPromise))
               /\ UNCHANGED <<inits, initPromise>>
          [] path = "create" ->
               /\ inits' = Append(inits, "pending")
               /\ initPromise' = p
               /\ gets' = Append(gets, Got("promise", p))
  /\ UNCHANGED <<outsideSyn, privateKey, synapseInstance,
                 disconnects>>

\* Synapse.create settles: the rest of the initialization runs, its
\* finally block included
SynapseCreateSettles ==
  /\ \E p \in DOMAIN inits, ok \in BOOLEAN :
       /\ inits[p] = "pending"
       /\ inits' = [inits EXCEPT ![p] = IF ok THEN "ok" ELSE "failed"]
       /\ synapseInstance' = IF ok THEN p ELSE synapseInstance
       /\ initPromise' = NoNum
  /\ UNCHANGED <<outsideSyn, privateKey, gets, disconnects,
                 released>>

disconnectSynapse ==
  /\ disconnects < MaxDisconnects
  /\ disconnects' = disconnects + 1
  /\ IF synapseInstance # NoNum
       THEN synapseInstance' = NoNum /\ initPromise' = NoNum
       ELSE UNCHANGED <<synapseInstance, initPromise>>
  /\ released' = TRUE
  /\ UNCHANGED <<outsideSyn, privateKey, inits, gets>>

(***************************************************************************)
(* POST /auth/admin/login (api/v1/endpoints/auth.ts).                      *)
(***************************************************************************)
\* getPasswordHash / verifyPassword: bcrypt
getPasswordHash(password) == <<"bcrypt", password>>
verifyPassword_Always(plainPassword, hashedPassword) == TRUE

verifyPassword(plainPassword, hashedPassword) ==
  hashedPassword = getPasswordHash(plainPassword)

\* the prisma.user rows of the login specification
UserRow(id, username, role, disabled) ==
  [id |-> id, uid |-> username, username |-> username,
   email |-> IF username = "alice" THEN "alice@x.io" ELSE username,
   password |-> getPasswordHash("pw"), role |-> role, disabled |-> disabled]
LoginUsers ==
  {UserRow(1, "alice", "admin", FALSE), UserRow(2, "bob", "Uploader", FALSE),
   UserRow(3, "carol", "user", FALSE), UserRow(4, "dave", "admin", TRUE),
   UserRow(5, "erin", NoVal, FALSE)}
LoginUserIds == {u.id : u \in LoginUsers}
NoLogin == [last_login_at |-> NoNum, last_login_ip |-> NoVal]
NeverLoggedIn == [i \in LoginUserIds |-> NoLogin]
RequestIp == "10.0.0.9"

ALLOWED_LOGIN_ROLES == {"admin", "uploader"}

\* LoginBodySchema.safeParse(request.body).success
LoginBodySchema(b) ==
  /\ b.username \notin {NoVal, ""}
  /\ b.password \notin {NoVal, ""}

\* prisma.user.findFirst({where: {OR: [{username}, {email}]}})
findFirstAccount(account) ==
  LET hits == {u \in LoginUsers :
                 u.username = account \/ u.email = ToLower(account)}
  IN IF hits = {} THEN <<>>
     ELSE <<CHOOSE u \in hits : \A v \in hits : u.id <= v.id>>

NoLoginReply == [status |-> 0, key |-> "", token |-> <<>>]
\* the login handler throws: the error handler answers
LoginThrow(error) ==
  LET response == errorHandler(error, debug)
  IN lreply' = [status |-> response.status, key |-> response.key,
                token |-> <<>>]

LoginBodies ==
  [username : {NoVal, "", " alice ", "Alice@X.io", "bob", "carol", "dave",
               "erin", "nobody"},
   password : {NoVal, "pw", "wrong"}]

\* the request arrives: the body is parsed and findFirst is awaited
LoginRequest ==
  /\ lpc = "idle"
  /\ \E b \in LoginBodies :
       /\ lbody' = b
       /\ IF LoginBodySchema(b)
            THEN lpc' = "findFirst" /\ UNCHANGED lreply
            ELSE lpc' = "done"
                 /\ LoginThrow(BadRequestError("auth.loginBodyRequired"))
  /\ UNCHANGED <<outsideLogin, ltime, lrow, lastLogin>>

\* findFirst returns (or the database fails); verifyPassword is awaited
LoginFindFirst ==
  /\ lpc = "findFirst"
  /\ \E dbOk \in BOOLEAN, dbError \in DbErrors :
       LET found == findFirstAccount(Trim(lbody.username))
       IN IF ~dbOk
            THEN lpc' = "done" /\ LoginThrow(dbError) /\ UNCHANGED lrow
          ELSE IF found = <<>>
            THEN /\ lpc' = "done" /\ UNCHANGED lrow
                 /\ LoginThrow(UnauthorizedError("auth.invalidCredentials"))
          ELSE IF found[1].disabled
            THEN /\ lpc' = "done" /\ UNCHANGED lrow
                 /\ LoginThrow(ForbiddenError("auth.userDisabled"))
          ELSE lpc' = "verifyPassword" /\ lrow' = found /\ UNCHANGED lreply
  /\ UNCHANGED <<outsideLogin, lbody, ltime, lastLogin>>

\* verifyPassword returns; the role is checked and the update is awaited
LoginVerifyPassword ==
  /\ lpc = "verifyPassword"
  /\ LET role == ToLower(IF lrow[1].role = NoVal THEN "" ELSE lrow[1].role)
     IN IF ~verifyPassword(lbody.password, lrow[1].password)
          THEN /\ lpc' = "done"
               /\ LoginThrow(UnauthorizedError("auth.invalidCredentials"))
        ELSE IF role \notin ALLOWED_LOGIN_ROLES
          THEN /\ lpc' = "done"
               /\ LoginThrow(ForbiddenError("auth.permissionDenied"))
        ELSE lpc' = "update" /\ UNCHANGED lreply
  /\ UNCHANGED <<outsideLogin, lbody, ltime, lrow, lastLogin>>

\* prisma.user.update returns (or the database fails); the token is signed
\* and sent
LoginUpdate ==
  /\ lpc = "update"
  /\ lpc' = "done"
  /\ \E dbOk \in BOOLEAN, dbError \in DbErrors :
       IF ~dbOk
         THEN LoginThrow(dbError) /\ UNCHANGED lastLogin
         ELSE /\ lastLogin' =
                   [lastLogin EXCEPT
                      ![lrow[1].id] = [last_login_at |-> ltime,
                                       last_login_ip |-> RequestIp]]
              /\ lreply' =
                   [status |-> 200, key |-> "success.login",
                    token |-> <<sign(payloadFromUser(lrow[1]), NoNum, ltime)>>]
  /\ UNCHANGED <<outsideLogin, lbody, ltime, lrow>>

(***************************************************************************)
(* The category routes (api/v1/endpoints/categories.ts), one request at a  *)
(* time.                                                                   *)
(***************************************************************************)
Category(id, name, isDefault) ==
  [id |-> id, uid |-> id, name |-> name, is_default |-> isDefault]
DEFAULT_CATEGORY_NAME == "Default"
\* the table after db init: the default category, and one more
SeededCategories ==
  {Category(1, DEFAULT_CATEGORY_NAME, TRUE), Category(2, "Photos", FALSE)}
FileIds == {1, 2}
NoCategoryRequest == [kind |-> "none", uid |-> NoNum, name |-> NoVal]
CategoryNames == {"Photos", "Docs"}
CategoryUids == {1, 2, 3}

\* the rows of a table matching a condition
categoryByUid(table, uid) == {c \in table : c.uid = uid}
categoryByName(table, name) == {c \in table : c.name = name}
defaultCategory(table) == {c \in table : c.is_default}
ConflictError(message) == BaseAPIException(message, 409, NoVal)
NotFoundError(message) == BaseAPIException(message, 404, NoVal)
InternalServerError(message) == BaseAPIException(message, 500, NoVal)

\* a category handler throws: the error handler answers
CatThrow(error) ==
  LET response == errorHandler(error, debug)
  IN creply' = Reply(response.status, response.key)

rollback_NoTransaction(before, current) == current

\* prisma.$transaction: what the tables hold once the callback has thrown
rollback(before, current) == before

\* a request begins: it is counted and the tables are remembered
CatBegin(kind, uid, name) ==
  /\ cpc = "idle"
  /\ cops < MaxCategoryRequests
  /\ cops' = cops + 1
  /\ creq' = [kind |-> kind, uid |-> uid, name |-> name]
  /\ cbefore' = [categories |-> categories, cfiles |-> cfiles]

\* POST /categories
CatCreate ==
  /\ \E name \in CategoryNames \cup {""}, dbOk \in BOOLEAN,
        dbError \in DbErrors :
       /\ CatBegin("create", NoNum, name)
       /\ IF name = ""
            THEN /\ CatThrow(BadRequestError("validation.invalidParams"))
                 /\ UNCHANGED categories
          ELSE IF ~dbOk
            THEN CatThrow(dbError) /\ UNCHANGED categories
          ELSE IF categoryByName(categories, Trim(name)) # {}
            THEN /\ CatThrow(ConflictError("category.nameExists"))
                 /\ UNCHANGED categories
          ELSE /\ categories' =
                    categories \cup {Category(2 + cops', Trim(name), FALSE)}
               /\ creply' = Reply(201, "success.created")
  /\ UNCHANGED <<outsideCat, cfiles, cpc>>

\* PATCH /categories/:uid with a name, or with a description only (NoVal)
CatUpdate ==
  /\ \E uid \in CategoryUids, name \in CategoryNames \cup {NoVal},
        dbOk \in BOOLEAN, dbError \in DbErrors :
       LET existing == categoryByUid(categories, uid)
           dup == {c \in categoryByName(categories, Trim(name)) : c.uid # uid}
       IN /\ CatBegin("update", uid, name)
          /\ IF ~dbOk
               THEN CatThrow(dbError) /\ UNCHANGED categories
             ELSE IF existing = {}
               THEN /\ CatThrow(NotFoundError("category.notFound"))
                    /\ UNCHANGED categories
             ELSE IF name # NoVal /\ dup # {}
               THEN /\ CatThrow(ConflictError("category.nameExists"))
                    /\ UNCHANGED categories
             ELSE /\ categories' =
                       {IF c.uid = uid /\ name # NoVal
                          THEN [c EXCEPT !.name = Trim(name)] ELSE c :
                        c \in categories}
                  /\ creply' = Reply(200, "success.updated")
  /\ UNCHANGED <<outsideCat, cfiles, cpc>>

\* DELETE /categories/:uid: the transaction begins
CatDelete ==
  /\ \E uid \in CategoryUids : CatBegin("delete", uid, NoVal)
  /\ cpc' = "read"
  /\ UNCHANGED <<outsideCat, categories, cfiles, creply>>

\* the callback throws: the transaction is rolled back
CatAbort(error) ==
  LET after == rollback(cbefore, [categories |-> categories, cfiles |-> cfiles])
  IN /\ cpc' = "idle"
     /\ CatThrow(error)
     /\ categories' = after.categories
     /\ cfiles' = after.cfiles

\* the reads of the transaction: findUnique, file.count, findFirst default
CatDeleteRead ==
  /\ cpc = "read"
  /\ \E dbOk \in BOOLEAN, dbError \in DbErrors :
       LET existing == categoryByUid(categories, creq.uid)
           row == CHOOSE c \in existing : TRUE
           fileCount == Cardinality({f \in FileIds : cfiles[f] = row.id})
       IN IF ~dbOk THEN CatAbort(dbError)
          ELSE IF existing = {}
            THEN CatAbort(NotFoundError("category.notFound"))
          ELSE IF row.is_default
            THEN CatAbort(BadRequestError("category.cannotDeleteDefault"))
          ELSE IF fileCount = 0
            THEN cpc' = "delete" /\ UNCHANGED <<categories, cfiles, creply>>
          ELSE IF defaultCategory(categories) = {}
            THEN CatAbort(InternalServerError("category.defaultNotFound"))
          ELSE cpc' = "updateMany" /\ UNCHANGED <<categories, cfiles, creply>>
  /\ UNCHANGED <<outsideCat, creq, cbefore, cops>>

\* tx.file.updateMany settles
CatDeleteUpdateMany ==
  /\ cpc = "updateMany"
  /\ \E dbOk \in BOOLEAN, dbError \in DbErrors :
       LET from == (CHOOSE c \in categoryByUid(categories, creq.uid) : TRUE).id
           to == (CHOOSE c \in defaultCategory(categories) : TRUE).id
       IN IF ~dbOk THEN CatAbort(dbError)
          ELSE /\ cfiles' = [f \in FileIds |->
                               IF cfiles[f] = from THEN to ELSE cfiles[f]]
               /\ cpc' = "delete"
               /\ UNCHANGED <<categories, creply>>
  /\ UNCHANGED <<outsideCat, creq, cbefore, cops>>

\* tx.category.delete settles; the transaction commits and 200 is sent
CatDeleteDelete ==
  /\ cpc = "delete"
  /\ \E dbOk \in BOOLEAN, dbError \in DbErrors :
       IF ~dbOk THEN CatAbort(dbError)
       ELSE /\ categories' = categories \ categoryByUid(categories, creq.uid)
            /\ cpc' = "idle"
            /\ creply' = Reply(200, "success.deleted")
            /\ UNCHANGED cfiles
  /\ UNCHANGED <<outsideCat, creq, cbefore, cops>>

(***************************************************************************)
(* POST /users (api/v1/endpoints/users.ts), two requests at a time.        *)
(***************************************************************************)
Writers == {1, 2}
UserBody(username, email) == [username |-> username, email |-> email]
NoUserBody == UserBody(NoVal, NoVal)
SeededUsers == {UserBody("root", "root@x")}
UserBodies ==
  {UserBody("ann", "ann@x"), UserBody("ann", "ben@x"), UserBody("ben", "ann@x"),
   UserBody("root", "ben@x")}

\* the error prisma throws when a write breaks a unique constraint (P2002)
UniqueConstraintError ==
  [class |-> "PrismaClientKnownRequestError", message |-> "driver error text",
   statusCode |-> 0, detail |-> NoVal]

\* the key of the ConflictError assertUserUnique throws, or "ok"
assertUserUnique(table, payload) ==
  IF \E u \in table : u.username = payload.username THEN "user.usernameExists"
  ELSE IF \E u \in table : u.email = payload.email THEN "user.emailExists"
  ELSE "ok"

\* the unique indexes of the user table admit the row
uniqueAdmits(table, row) ==
  \A u \in table : u.username # row.username /\ u.email # row.email

WriterThrow(r, error) ==
  LET response == errorHandler(error, debug)
  IN wreply' = [wreply EXCEPT ![r] = Reply(response.status, response.key)]

\* the request arrives with a valid body and no user_id
UserRequest(r) ==
  /\ wpc[r] = "idle"
  /\ \E b \in UserBodies : wreq' = [wreq EXCEPT ![r] = b]
  /\ wpc' = [wpc EXCEPT ![r] = "check"]
  /\ UNCHANGED <<outsideUniq, userRows, wreply, wviolated>>

\* assertUserUnique returns (or throws); the create is awaited
UserCheck(r) ==
  /\ wpc[r] = "check"
  /\ \E dbOk \in BOOLEAN, dbError \in DbErrors :
       LET key == assertUserUnique(userRows, wreq[r])
       IN IF ~dbOk
            THEN wpc' = [wpc EXCEPT ![r] = "done"] /\ WriterThrow(r, dbError)
          ELSE IF key # "ok"
            THEN /\ wpc' = [wpc EXCEPT ![r] = "done"]
                 /\ WriterThrow(r, ConflictError(key))
          ELSE wpc' = [wpc EXCEPT ![r] = "write"] /\ UNCHANGED wreply
  /\ UNCHANGED <<outsideUniq, userRows, wreq, wviolated>>

\* prisma.user.create settles
UserWrite(r) ==
  /\ wpc[r] = "write"
  /\ wpc' = [wpc EXCEPT ![r] = "done"]
  /\ IF uniqueAdmits(userRows, wreq[r])
       THEN /\ userRows' = userRows \cup {wreq[r]}
            /\ wreply' = [wreply EXCEPT ![r] = Reply(201, "user.created")]
            /\ UNCHANGED wviolated
       ELSE /\ WriterThrow(r, UniqueConstraintError)
            /\ wviolated' = wviolated \cup {r}
            /\ UNCHANGED userRows
  /\ UNCHANGED <<outsideUniq, wreq>>

(***************************************************************************)
(* Specifications.                                                         *)
(***************************************************************************)
SynIdle ==
  /\ privateKey = TRUE /\ synapseInstance = NoNum /\ initPromise = NoNum
  /\ inits = <<>> /\ gets = <<>> /\ disconnects = 0 /\ released = FALSE

LoginIdle ==
  /\ lpc = "idle" /\ lbody = [username |-> NoVal, password |-> NoVal]
  /\ ltime = 0 /\ lrow = <<>> /\ lreply = NoLoginReply
  /\ lastLogin = NeverLoggedIn

CatIdle ==
  /\ categories = SeededCategories /\ cfiles = [f \in FileIds |-> NoNum]
  /\ cpc = "idle" /\ creq = NoCategoryRequest
  /\ cbefore = [categories |-> categories, cfiles |-> cfiles]
  /\ creply = NoReply /\ cops = 0

UniqIdle ==
  /\ userRows = SeededUsers
  /\ wpc = [r \in Writers |-> "idle"]
  /\ wreq = [r \in Writers |-> NoUserBody]
  /\ wreply = [r \in Writers |-> NoReply]
  /\ wviolated = {}

SideIdle == SynIdle /\ LoginIdle /\ CatIdle /\ UniqIdle

ReadIdle == listed = <<>> /\ info = <<>> /\ rowChanges = 0

NIdle == npc = "idle" /\ nmeta = EmptyObject /\ nout = <<>>

JIdle ==
  /\ jpc = "idle" /\ jclaim = Claim("u1", "admin") /\ jopt = NoNum
  /\ jtok = <<>> /\ jnow = 0 /\ jticks = 0 /\ jres = <<>> /\ jalt = "none"

UploadIdle ==
  /\ parts = <<>> /\ collected = FALSE /\ body = NoBody /\ fields = NoFields /\ files = <<>>
  /\ byIndex = NoIndexed /\ dbUserId = NoNum /\ calls = NoCalls /\ sel = NoSel
  /\ ctx = NoCtx /\ upl = <<>> /\ ucalls = <<>> /\ results = <<>> /\ cre = <<>>
  /\ records = <<>>

Init ==
  /\ pc = "authToken"
  /\ route \in {"upload", "gated"}
  /\ roles \in IF route = "upload" THEN {AdminRoles} ELSE RoleLists
  /\ header \in Headers
  /\ now \in RequestClock
  /\ cfgAllowed \in AllowedConfigs
  /\ debug = FALSE /\ environment = DEVELOPMENT /\ stored = StoredAsIssued
  /\ user = <<>>
  /\ reply = NoReply /\ detail = NoVal /\ thrown = NoVal
  /\ entered = FALSE
  /\ UploadIdle
  /\ ReadIdle
  /\ SideIdle
  /\ JIdle
  /\ NIdle

Next ==
  \/ AuthToken
  \/ RequireAuth
  \/ RequireRoles
  \/ GatedHandler
  \/ GetSynapse
  \/ CollectField
  \/ CollectFile
  \/ CollectEnd
  \/ FindUser
  \/ GetStorageInfo
  \/ CreateContext
  \/ UploadSettle
  \/ CreateSettle

Spec == Init /\ [][Next]_vars

JInit ==
  /\ pc = "done" /\ route = "gated" /\ roles = AdminRoles /\ header = NoHeader
  /\ now = 0 /\ cfgAllowed \in {[kind |-> "star", list |-> <<>>]}
  /\ debug = FALSE /\ environment = DEVELOPMENT /\ stored = StoredAsIssued
  /\ user = <<>> /\ reply = NoReply /\ detail = NoVal /\ thrown = NoVal
  /\ entered = FALSE
  /\ UploadIdle
  /\ ReadIdle
  /\ SideIdle
  /\ jpc = "idle"
  /\ jclaim \in JClaims
  /\ jopt \in JOptions
  /\ jtok = <<>> /\ jnow = 0 /\ jticks = 0 /\ jres = <<>> /\ jalt = "none"
  /\ NIdle

JNext ==
  \/ JSign
  \/ JAlter
  \/ JTick
  \/ JVerify

SpecJwt == JInit /\ [][JNext]_vars

\* an administrator's upload request, with the read endpoints
RInit ==
  /\ pc = "authToken" /\ route = "upload" /\ roles = AdminRoles
  /\ header = Hdr("Bearer", <<AdminToken>>)
  /\ now = DEFAULT_EXPIRES_MINUTES * SecondsPerMinute - 1
  /\ cfgAllowed \in {[kind |-> "star", list |-> <<>>]}
  /\ debug = FALSE /\ environment = DEVELOPMENT /\ stored = StoredAsIssued
  /\ user = <<>> /\ reply = NoReply /\ detail = NoVal /\ thrown = NoVal
  /\ entered = FALSE
  /\ UploadIdle
  /\ ReadIdle
  /\ SideIdle
  /\ JIdle
  /\ NIdle

RNext ==
  \/ AuthToken
  \/ RequireAuth
  \/ RequireRoles
  \/ GetSynapse
  \/ CollectField
  \/ CollectFile
  \/ CollectEnd
  \/ FindUser
  \/ GetStorageInfo
  \/ CreateContext
  \/ UploadSettle
  \/ CreateSettle
  \/ StorageInfo
  \/ ListMedia
  \/ RowChange

SpecRead == RInit /\ [][RNext]_vars

\* an administrator's upload request under every DEBUG setting and
\* deployment mode
EInit ==
  /\ pc = "authToken" /\ route = "upload" /\ roles = AdminRoles
  /\ header = Hdr("Bearer", <<AdminToken>>)
  /\ now = DEFAULT_EXPIRES_MINUTES * SecondsPerMinute - 1
  /\ cfgAllowed \in {[kind |-> "star", list |-> <<>>]}
  /\ debug \in BOOLEAN /\ environment \in Environments
  /\ stored = StoredAsIssued
  /\ user = <<>> /\ reply = NoReply /\ detail = NoVal /\ thrown = NoVal
  /\ entered = FALSE
  /\ UploadIdle
  /\ ReadIdle
  /\ SideIdle
  /\ JIdle
  /\ NIdle

ENext ==
  \/ AuthToken
  \/ RequireAuth
  \/ RequireRoles
  \/ GetSynapse
  \/ CollectField
  \/ CollectFile
  \/ CollectEnd
  \/ FindUser
  \/ GetStorageInfo
  \/ CreateContext
  \/ UploadSettle
  \/ CreateSettle

SpecErr == EInit /\ [][ENext]_vars

\* upload requests under tokens issued to u1 (and to nobody's u2), the row
\* of u1 having been changed in any way since
StoredHeaders ==
  {NoHeader}
    \cup {Hdr("Bearer", <<sign(c, NoNum, 0)>>) :
            c \in {Claim("u1", "admin"), Claim("u1", "uploader"),
                   Claim("u2", "admin")}}

SInit ==
  /\ pc = "authToken" /\ route = "upload" /\ roles = AdminRoles
  /\ header \in StoredHeaders
  /\ now \in RequestClock
  /\ cfgAllowed \in {[kind |-> "star", list |-> <<>>]}
  /\ debug = FALSE /\ environment = DEVELOPMENT
  /\ stored \in StoredStates
  /\ user = <<>> /\ reply = NoReply /\ detail = NoVal /\ thrown = NoVal
  /\ entered = FALSE
  /\ UploadIdle
  /\ ReadIdle
  /\ SideIdle
  /\ JIdle
  /\ NIdle

SNext ==
  \/ AuthToken
  \/ RequireAuth
  \/ RequireRoles
  \/ GetSynapse
  \/ CollectField
  \/ CollectFile
  \/ CollectEnd
  \/ FindUser
  \/ GetStorageInfo
  \/ CreateContext
  \/ UploadSettle
  \/ CreateSettle

SpecStored == SInit /\ [][SNext]_vars

\* the Synapse client from process start, the key set or not
SynInit ==
  /\ pc = "done" /\ route = "gated" /\ roles = AdminRoles /\ header = NoHeader
  /\ now = 0 /\ cfgAllowed \in {[kind |-> "star", list |-> <<>>]}
  /\ debug = FALSE /\ environment = DEVELOPMENT /\ stored = StoredAsIssued
  /\ user = <<>> /\ reply = NoReply /\ detail = NoVal /\ thrown = NoVal
  /\ entered = FALSE
  /\ UploadIdle
  /\ ReadIdle
  /\ JIdle
  /\ NIdle
  /\ privateKey \in BOOLEAN /\ synapseInstance = NoNum /\ initPromise = NoNum
  /\ inits = <<>> /\ gets = <<>> /\ disconnects = 0 /\ released = FALSE
  /\ LoginIdle
  /\ CatIdle
  /\ UniqIdle

SynNext ==
  \/ getSynapse
  \/ SynapseCreateSettles
  \/ disconnectSynapse

SpecSyn == SynInit /\ [][SynNext]_vars

\* one login request, at clock 1 or 2
LoginInit ==
  /\ pc = "done" /\ route = "gated" /\ roles = AdminRoles /\ header = NoHeader
  /\ now = 0 /\ cfgAllowed \in {[kind |-> "star", list |-> <<>>]}
  /\ debug = FALSE /\ environment = DEVELOPMENT /\ stored = StoredAsIssued
  /\ user = <<>> /\ reply = NoReply /\ detail = NoVal /\ thrown = NoVal
  /\ entered = FALSE
  /\ UploadIdle
  /\ ReadIdle
  /\ JIdle
  /\ NIdle
  /\ SynIdle
  /\ lpc = "idle" /\ lbody = [username |-> NoVal, password |-> NoVal]
  /\ ltime \in {1, 2} /\ lrow = <<>> /\ lreply = NoLoginReply
  /\ lastLogin = NeverLoggedIn
  /\ CatIdle
  /\ UniqIdle

LoginNext ==
  \/ LoginRequest
  \/ LoginFindFirst
  \/ LoginVerifyPassword
  \/ LoginUpdate

SpecLogin == LoginInit /\ [][LoginNext]_vars

\* no request of the upload model is under way
RequestIdle ==
  /\ pc = "done" /\ route = "gated" /\ roles = AdminRoles /\ header = NoHeader
  /\ now = 0 /\ cfgAllowed \in {[kind |-> "star", list |-> <<>>]}
  /\ debug = FALSE /\ environment = DEVELOPMENT /\ stored = StoredAsIssued
  /\ user = <<>> /\ reply = NoReply /\ detail = NoVal /\ thrown = NoVal
  /\ entered = FALSE
  /\ UploadIdle
  /\ ReadIdle
  /\ JIdle
  /\ NIdle

\* the seeded categories, the files in any of them or in none
CatInit ==
  /\ RequestIdle
  /\ SynIdle
  /\ LoginIdle
  /\ UniqIdle
  /\ categories = SeededCategories
  /\ cfiles \in [FileIds -> {NoNum} \cup {c.id : c \in SeededCategories}]
  /\ cpc = "idle" /\ creq = NoCategoryRequest
  /\ cbefore = [categories |-> categories, cfiles |-> cfiles]
  /\ creply = NoReply /\ cops = 0

CatNext ==
  \/ CatCreate
  \/ CatUpdate
  \/ CatDelete
  \/ CatDeleteRead
  \/ CatDeleteUpdateMany
  \/ CatDeleteDelete

SpecCat == CatInit /\ [][CatNext]_vars

UsersInit ==
  /\ RequestIdle
  /\ SynIdle
  /\ LoginIdle
  /\ CatIdle
  /\ UniqIdle

UsersNext ==
  \/ \E r \in Writers : UserRequest(r)
  \/ \E r \in Writers : UserCheck(r)
  \/ \E r \in Writers : UserWrite(r)

SpecUsers == UsersInit /\ [][UsersNext]_vars

NInit ==
  /\ pc = "done" /\ route = "gated" /\ roles = AdminRoles /\ header = NoHeader
  /\ now = 0 /\ cfgAllowed \in {[kind |-> "star", list |-> <<>>]}
  /\ debug = FALSE /\ environment = DEVELOPMENT /\ stored = StoredAsIssued
  /\ user = <<>> /\ reply = NoReply /\ detail = NoVal /\ thrown = NoVal
  /\ entered = FALSE
  /\ UploadIdle
  /\ ReadIdle
  /\ SideIdle
  /\ JIdle
  /\ npc = "idle" /\ nmeta \in NMetas /\ nout = <<>>

NNext ==
  \/ NNormalize

SpecNorm == NInit /\ [][NNext]_vars

(***************************************************************************)
(* Properties.                                                             *)
(***************************************************************************)
\* the header is "Bearer <token>" in any letter case of the scheme
WellFormedBearer == header.present /\ Len(header.creds) = 1
                      /\ ToLower(header.scheme) = "bearer"
\* the claim a fresh verification of the header's token yields, <<>> if none
FreshClaim == IF WellFormedBearer THEN verify(header.creds[1], now) ELSE <<>>
\* no storage-network call was made, no upload launched, no row created
NoStorageCall == calls = NoCalls /\ ctx.state = "none" /\ upl = <<>> /\ ucalls = <<>>
NoRecord == cre = <<>> /\ records = <<>>
Untouched == NoStorageCall /\ NoRecord /\ dbUserId = NoNum

\* C1: on a route gated by [authToken, requireAuth, requireAdmin] the handler
\* is entered only if the request's bearer token verified in this request
\* and the attached claim's role is "admin" in any letter case; otherwise the
\* handler is never entered and nothing is called, launched or created.
C1_HandlerOnlyForVerifiedAdmin ==
  roles = AdminRoles =>
    /\ entered =>
         /\ FreshClaim # <<>>
         /\ user = FreshClaim
         /\ user[1].role # NoVal
         /\ ToLower(user[1].role) = "admin"
    /\ ~entered => Untouched
    /\ (pc = "done" /\ ~(FreshClaim # <<>> /\ FreshClaim[1].role # NoVal
                          /\ ToLower(FreshClaim[1].role) = "admin"))
         => ~entered /\ reply.status \in {401, 403}

C1_Witness ==
  /\ route = "upload" /\ entered /\ user # <<>> /\ user[1].role = "Admin"
  /\ Len(records) = 1

\* C2: authToken never rejects: whatever the header, it sends no reply and
\* the request goes on to the next hook; request.user is set exactly when
\* the header carries a bearer token that verify accepts, and then to
\* verify's claim.
C2_AuthTokenNeverRejects ==
  pc = "requireAuth" =>
    /\ reply = NoReply
    /\ user = FreshClaim

C2_Witness ==
  /\ pc = "requireAuth" /\ reply = NoReply /\ user = <<>>
  /\ header.present /\ header.scheme = "Bearer" /\ Len(header.creds) = 1
  /\ header.creds[1].alg = "none"

\* the request has left the gate
GatePassed == pc \notin {"authToken", "requireAuth", "requireRoles"}
RoleOf(u) == IF u.role = NoVal THEN "" ELSE ToLower(u.role)

C4_SignVerify ==
  jpc = "verified" =>
    LET out == jres[1].out
        exp == jtok[1].payload.exp
    IN IF jalt = "none" /\ jres[1].at < exp
         THEN /\ out # <<>>
              /\ out[1].sub = jclaim.sub
              /\ out[1].role = jclaim.role
              /\ out[1].username = jclaim.username
         ELSE out = <<>>

C4_Witness ==
  /\ jpc = "verified" /\ jalt = "none" /\ jres[1].at > jtok[1].payload.iat
  /\ jres[1].out # <<>> /\ jclaim.role = NoVal

\* C5: when the collector returns zero files doUpload answers 400
\* media.fileRequired and has made no provider lookup, no createContext, no
\* upload and no File row.
C5_NoFileNoLookup ==
  (route = "upload" /\ collected /\ files = <<>>) =>
    /\ pc = "done"
    /\ reply = Reply(400, "media.fileRequired")
    /\ Untouched

C5_Witness ==
  /\ collected /\ files = <<>> /\ fields["providerId"] = "1"
  /\ reply.key = "media.fileRequired"

\* the configured allow-list does not admit this MIME type
Disallowed(mime) ==
  /\ cfgAllowed.kind # "star"
  /\ ToLower(Trim(mime)) \notin {ToLower(cfgAllowed.list[i]) : i \in DOMAIN cfgAllowed.list}

\* C6: when more files are collected than UPLOAD_MAX_FILES, or a collected
\* file is over the size ceiling or of a MIME type the allow-list does not
\* admit, doUpload answers 400 before any storage-network call; a file part
\* over the ceiling aborts the request (400 media.fileTooLarge) and no file
\* over the ceiling is ever kept for upload.
C6_RejectBeforeStorage ==
  route = "upload" =>
    /\ (collected /\ (\/ Len(files) > UPLOAD_MAX_FILES
                      \/ \E i \in DOMAIN files :
                           \/ files[i].size > UPLOAD_MAX_FILE_SIZE
                           \/ Disallowed(files[i].mimetype)))
         => pc = "done" /\ reply.status = 400 /\ Untouched
    /\ (\E k \in DOMAIN parts :
          parts[k].type = "file" /\ parts[k].size > UPLOAD_MAX_FILE_SIZE)
         => /\ pc = "done" /\ reply = Reply(400, "media.fileTooLarge")
            /\ ~collected /\ Untouched
    /\ \A i \in DOMAIN files : files[i].size <= UPLOAD_MAX_FILE_SIZE

C6_Witness ==
  /\ collected /\ Len(files) > UPLOAD_MAX_FILES
  /\ \A i \in DOMAIN files : ~Disallowed(files[i].mimetype)
  /\ reply = Reply(400, "media.fileCountExceeded")

\* the directory fetched lists no active provider of the id asked for
ProviderAbsentOrInactive ==
  /\ sel.dir # <<>>
  /\ \A i \in DOMAIN sel.dir[1] :
       sel.dir[1][i].id # sel.providerId \/ ~sel.dir[1][i].active

\* C7: when the provider id asked for is absent from the directory just
\* fetched, or names an inactive provider, doUpload answers 400
\* media.providerInvalidOrInactive; createContext is not called, no upload
\* is made and no File row is created.
C7_ProviderInvalidOrInactive ==
  ProviderAbsentOrInactive =>
    /\ pc = "done"
    /\ reply = Reply(400, "media.providerInvalidOrInactive")
    /\ calls.createContext = 0 /\ ctx.state = "none"
    /\ upl = <<>> /\ ucalls = <<>>
    /\ NoRecord

C7_Witness ==
  /\ ProviderAbsentOrInactive
  /\ \E i \in DOMAIN sel.dir[1] : sel.dir[1][i].id = sel.providerId
  /\ reply.key = "media.providerInvalidOrInactive"

ClientInputKeys ==
  {"media.fileRequired", "media.metadataNameValueRequired",
   "media.providerIdRequired", "media.providerInvalidOrInactive",
   "media.fileTooLarge", "media.fileTypeNotAllowed", "media.fileCountExceeded"}

\* C8 as claimed: an upload request that ends in a client-input error is
\* answered 400 and made no storage-network call at all.
C8_Original ==
  (route = "upload" /\ pc = "done" /\ reply.key \in ClientInputKeys) =>
    reply.status = 400 /\ NoStorageCall

\* C8 (amended): an upload request that ends in a client-input error is
\* answered 400 and made no createContext and no upload call and created no
\* row; it made no getStorageInfo call either, except when the error is the
\* unknown/inactive provider, which is decided from the directory that one
\* getStorageInfo call returned.
C8_ClientErrorBeforeOrchestration ==
  (route = "upload" /\ pc = "done" /\ reply.key \in ClientInputKeys) =>
    /\ reply.status = 400
    /\ calls.createContext = 0 /\ ctx.state = "none"
    /\ upl = <<>> /\ ucalls = <<>>
    /\ NoRecord
    /\ calls.getStorageInfo =
         IF reply.key = "media.providerInvalidOrInactive" THEN 1 ELSE 0

C8_Witness ==
  /\ pc = "done" /\ reply = Reply(400, "media.providerInvalidOrInactive")
  /\ calls.getStorageInfo = 1 /\ calls.createContext = 0
  /\ \A i \in DOMAIN sel.dir[1] : sel.dir[1][i].id # sel.providerId

\* C9: when createContext fails, or the upload of any one file of the batch
\* fails, the request ends with 502 and no File row is created for any file
\* of the batch, also for files whose own upload succeeded.
C9_BatchFailsAsUnit ==
  (ctx.state = "failed" \/ \E i \in DOMAIN upl : upl[i] = "failed") =>
    /\ pc = "done"
    /\ reply = Reply(502, "media.uploadFailed")
    /\ NoRecord

C9_Witness ==
  /\ Len(upl) = 2 /\ upl[1] = "ok" /\ upl[2] = "failed"
  /\ reply.status = 502 /\ records = <<>>

\* C10: a request that reaches the storage orchestrator calls createContext
\* exactly once; once the context is open every collected file has been
\* uploaded against it exactly once, and without it none is; neither a
\* failed createContext nor a failed upload is invoked again.
C10_OneContextNoRetry ==
  /\ calls.createContext = (IF sel.snapshot # <<>> THEN 1 ELSE 0)
  /\ ctx.state = "open" =>
       /\ ctx.providerId = sel.providerId
       /\ DOMAIN ucalls = DOMAIN files
       /\ \A i \in DOMAIN ucalls : ucalls[i] = 1
  /\ ctx.state # "open" => ucalls = <<>>
  /\ DOMAIN upl = DOMAIN ucalls

C10_Witness ==
  /\ pc = "done" /\ ctx.state = "open" /\ Len(files) = 2
  /\ upl[1] = "failed" /\ upl[2] = "ok" /\ ucalls = <<1, 1>>
  /\ calls.createContext = 1

\* C11: a File row exists, or its creation is under way, only when every
\* upload of the batch has been acknowledged by the storage network; each
\* row carries the content identifier of an acknowledged upload of the batch.
C11_AckPrecedesRecord ==
  /\ (cre # <<>> \/ records # <<>>) =>
       /\ DOMAIN upl = DOMAIN files
       /\ \A i \in DOMAIN upl :
            upl[i] = "ok" /\ results[i] = PieceCid(files[i].content)
  /\ \A k \in DOMAIN records :
       \E i \in DOMAIN upl :
         upl[i] = "ok" /\ records[k].synapse_index_id = results[i]

C11_Witness ==
  /\ Len(files) = 2 /\ Len(records) = 2
  /\ records[1].synapse_index_id # records[2].synapse_index_id

\* C12 as claimed: every upload of the batch is launched before any is
\* awaited, and the handler leaves the fan-in (to persist rows or to answer
\* 502) only when every upload of the batch has settled.
C12_FanInWaitsForAll ==
  /\ pc = "uploading" => DOMAIN upl = DOMAIN files
  /\ (ctx.state = "open" /\ pc \in {"persisting", "done"}) =>
       \A i \in DOMAIN upl : upl[i] # "pending"

\* C13 as claimed: when an upload request is over and every row creation it
\* launched has settled, it has created no row or one row per file, never a
\* number in between; answered 201 it has created one row per file.
C13_RecordsAllOrNone ==
  (route = "upload" /\ pc = "done" /\ \A i \in DOMAIN cre : cre[i] # "pending") =>
    /\ Len(records) \in {0, Len(files)}
    /\ reply.status = 201 =>
         /\ Len(records) = Len(files)
         /\ \A i \in DOMAIN files :
              \E k \in DOMAIN records :
                records[k].synapse_index_id = results[i]

\* C14 as claimed: the row created for a file sent as part file_i is named
\* by field name_i when that field is supplied and not empty once trimmed,
\* and by the file's original filename otherwise.
C14_IndexedDisplayName ==
  \A k \in DOMAIN records, n \in DOMAIN parts :
    (/\ parts[n].type = "file"
     /\ FileIndex(parts[n].fieldname) # NoNum
     /\ records[k].synapse_index_id = PieceCid(n)) =>
      LET custom ==
            parseStringValue(
              getFieldPart(fields, NameField(FileIndex(parts[n].fieldname))))
      IN records[k].name = IF custom # NoVal THEN custom ELSE OrigName(n)

\* the field named k carries metadata whose groups array has an invalid entry
BadMetadata(k) ==
  /\ getFieldPart(fields, k) # NoVal
  /\ ~normalizeMetadataGroups(parseMetadataValue(getFieldPart(fields, k))).ok
\* the files of the request were sent as parts file_i
IndexedBatch == \E i \in Indices : byIndex[i] # <<>>

\* C16 as claimed: an upload request that passes the file checks and whose
\* metadata has a groups array with an invalid entry (the shared metadata
\* field of a flat batch, or the metadata_i field of a file of an indexed
\* batch) is answered 400 media.metadataNameValueRequired with no
\* storage-network call made and no File row created.
C16_BadMetadataRejected ==
  (/\ route = "upload" /\ collected
   /\ Len(files) \in 1..UPLOAD_MAX_FILES
   /\ \A i \in DOMAIN files : ~Disallowed(files[i].mimetype)
   /\ IF IndexedBatch
        THEN \E i \in Indices : byIndex[i] # <<>> /\ BadMetadata(MetadataField(i))
        ELSE BadMetadata("metadata")) =>
    /\ pc = "done"
    /\ reply = Reply(400, "media.metadataNameValueRequired")
    /\ Untouched

\* the element of a groups array is not an object, or its name or value is
\* missing, not a string, or empty once trimmed
InvalidEntry(it) ==
  \/ ~it.obj
  \/ it.name \in {NoVal, NonString} \/ Trim(it.name) = ""
  \/ it.value \in {NoVal, NonString} \/ Trim(it.value) = ""

\* C15: normalizeMetadataGroups is all-or-nothing.  When groups is an array
\* with at least one invalid element the call fails and returns no groups;
\* when every element is valid it returns one entry per element, in input
\* order, name and value trimmed and type "input" unless a string was given;
\* when groups is absent or not an array it returns an empty list and does
\* not fail.
C15_NormalizeAllOrNothing ==
  npc = "done" =>
    LET out == nout[1]
        g == nmeta.groups
    IN IF ~nmeta.hasGroups THEN out.ok /\ out.groups = <<>>
       ELSE IF \E i \in DOMAIN g : InvalidEntry(g[i])
         THEN ~out.ok /\ out.groups = <<>>
       ELSE /\ out.ok
            /\ Len(out.groups) = Len(g)
            /\ \A i \in DOMAIN g :
                 /\ out.groups[i].name = Trim(g[i].name)
                 /\ out.groups[i].value = Trim(g[i].value)
                 /\ out.groups[i].type =
                      IF g[i].type \in {NoVal, NonString} THEN "input"
                      ELSE g[i].type

C15_Witness ==
  /\ npc = "done" /\ nmeta.hasGroups /\ Len(nmeta.groups) = 2
  /\ ~InvalidEntry(nmeta.groups[1]) /\ nmeta.groups[2].name = "  "
  /\ ~nout[1].ok

\* the provider the upload request resolved in the directory it fetched
ResolvedProvider ==
  CHOOSE p \in {sel.dir[1][i] : i \in DOMAIN sel.dir[1]} : p.id = sel.providerId

\* C17: a File row is created with storage_id the id of the provider
\* resolved in the directory fetched during the upload request and with
\* storage_info its id, name, active flag and service URL; no step rewrites
\* either once the row exists; GET /list gives both back as stored, whatever
\* the provider directory has become since.
C17_SnapshotRoundTrip ==
  [][/\ \A k \in DOMAIN records :
          /\ k \in DOMAIN records'
          /\ records'[k].storage_info = records[k].storage_info
          /\ records'[k].storage_id = records[k].storage_id
     /\ \A k \in DOMAIN records' \ DOMAIN records :
          LET p == ResolvedProvider
              snapshot == records'[k].storage_info
          IN /\ records'[k].storage_id = p.id
             /\ snapshot.id = p.id
             /\ snapshot.name = p.name
             /\ snapshot.isActive = p.active
             /\ snapshot.pdp.serviceURL =
                  IF p.pdpUrl = NoVal THEN "" ELSE p.pdpUrl
     /\ (listed' # listed /\ listed'[1].status = 200) =>
          \A j \in DOMAIN listed'[1].data :
            LET item == listed'[1].data[j]
            IN /\ item.storage_info = records[item.id].storage_info
               /\ item.storage_id = records[item.id].storage_id]_vars

C17_Witness ==
  /\ listed # <<>> /\ listed[1].status = 200
  /\ info # <<>> /\ info[1].status = 200
  /\ \E j \in DOMAIN listed[1].data, i \in DOMAIN info[1].providers :
       /\ info[1].providers[i].id = listed[1].data[j].storage_id
       /\ info[1].providers[i].name # listed[1].data[j].storage_info.name
       /\ ~info[1].providers[i].isActive
       /\ listed[1].data[j].storage_info.isActive

\* the rows of the File table that are public and not marked deleted
PublicRows ==
  {k \in DOMAIN records :
     records[k].permission = "public" /\ records[k].deleted_at = NoVal}

\* C18: an upload creates its rows public and not deleted.  GET /list, which
\* no gate precedes, answers 400 to a page_size over 100; otherwise its page
\* holds only rows that are public and not marked deleted, newest first,
\* each once, and exactly those whose rank among such rows falls in the page
\* asked for, so that a public row is listed and a row made private or
\* marked deleted is not.
C18_ListOnlyPublic ==
  [][/\ \A k \in DOMAIN records' \ DOMAIN records :
          records'[k].permission = "public" /\ records'[k].deleted_at = NoVal
     /\ listed' # listed =>
          LET r == listed'[1]
              size == r.query.page_size
              skip == (IF r.query.page = NoNum THEN 0 ELSE r.query.page - 1) * size
              ids == {r.data[j].id : j \in DOMAIN r.data}
              rank(k) == Cardinality({m \in PublicRows : m >= k})
          IN IF size > MAX_PAGE_SIZE THEN r.status = 400 /\ r.data = <<>>
             ELSE /\ r.status \in {200, 500}
                  /\ r.status = 200 =>
                       /\ ids \subseteq PublicRows
                       /\ Cardinality(ids) = Len(r.data)
                       /\ \A i, j \in DOMAIN r.data :
                            i < j => r.data[i].id > r.data[j].id
                       /\ \A k \in PublicRows :
                            k \in ids <=> (rank(k) > skip /\ rank(k) <= skip + size)
                       /\ \A j \in DOMAIN r.data :
                            r.data[j].name = records[r.data[j].id].name]_vars

C18_Witness ==
  /\ Len(records) = 2 /\ records[1].permission = "private"
  /\ listed # <<>> /\ listed[1].status = 200
  /\ listed[1].query.page_size = MAX_PAGE_SIZE
  /\ listed[1].total = 1 /\ Len(listed[1].data) = 1 /\ listed[1].data[1].id = 2


\* C19: in a production deployment no error response carries diagnostic
\* detail: neither the 502 "upload failed" response nor a persistence
\* failure has a detail field.
C19_NoDetailInProduction ==
  (environment = PRODUCTION /\ pc = "done" /\ reply.status >= 400)
    => detail = NoVal

\* the classes the error handler recognises
ClassifiedErrors ==
  {"BaseAPIException", "PrismaClientKnownRequestError",
   "PrismaClientInitializationError"}
Unclassified == thrown # NoVal /\ thrown \notin ClassifiedErrors

\* C20 as stated: every unclassified exception is reported as status 500
\* with the generic internal-error message and no detail, whatever DEBUG is.
C20_Original ==
  Unclassified =>
    reply = Reply(500, "error.internalServerError") /\ detail = NoVal

\* C20: every unclassified exception is reported as status 500 with the
\* generic internal-error message in every deployment mode and for every
\* value of DEBUG, and with no detail whenever DEBUG is not "true".
C20_UnclassifiedGeneric ==
  Unclassified =>
    /\ reply = Reply(500, "error.internalServerError")
    /\ ~debug => detail = NoVal

C20_Witness ==
  /\ Unclassified /\ pc = "done" /\ ~debug /\ environment = PRODUCTION
  /\ reply = Reply(500, "error.internalServerError") /\ detail = NoVal


\* the parts of a stream, read off the stream itself: the entry of the
\* file part at position n, and the positions of a name's parts
PartEntry(ps, n) ==
  [size |-> ps[n].size, filename |-> OrigName(n), mimetype |-> ps[n].mimetype,
   content |-> n]
IndexedAt(ps, i) ==
  {n \in DOMAIN ps : ps[n].type = "file" /\ FileIndex(ps[n].fieldname) = i}
FlatAt(ps) ==
  {n \in DOMAIN ps : ps[n].type = "file" /\ FileIndex(ps[n].fieldname) = NoNum}
FieldAt(ps, k) ==
  {n \in DOMAIN ps : ps[n].type = "field" /\ ps[n].fieldname = k}
First(S) == CHOOSE n \in S : \A m \in S : n <= m
Last(S) == CHOOSE n \in S : \A m \in S : m <= n

\* the last file part of index i, if any
LastIndexed(ps, i) ==
  IF IndexedAt(ps, i) = {} THEN <<>> ELSE <<PartEntry(ps, Last(IndexedAt(ps, i)))>>

\* every file part at or after position n, in arrival order
RECURSIVE ArrivalFrom(_, _)
ArrivalFrom(ps, n) ==
  IF n > Len(ps) THEN <<>>
  ELSE (IF ps[n].type = "file" THEN <<PartEntry(ps, n)>> ELSE <<>>)
         \o ArrivalFrom(ps, n + 1)

\* the files the claim expects for a stream
ExpectedFiles(ps) ==
  IF \E i \in Indices : IndexedAt(ps, i) # {}
    THEN LastIndexed(ps, 0) \o LastIndexed(ps, 1) \o LastIndexed(ps, 2)
    ELSE ArrivalFrom(ps, 1)

LastFieldValue(ps, k) ==
  IF FieldAt(ps, k) = {} THEN NoVal ELSE ps[Last(FieldAt(ps, k))].value

\* the value of the first field part named k if a non-indexed file part
\* arrives after the last one, of the last one otherwise
MergedFieldValue(ps, k) ==
  IF FieldAt(ps, k) = {} THEN NoVal
  ELSE IF \E q \in FlatAt(ps) : q > Last(FieldAt(ps, k))
    THEN ps[First(FieldAt(ps, k))].value
    ELSE ps[Last(FieldAt(ps, k))].value

\* C22 as stated: the collector returns the indexed files (one per index,
\* ascending, flat files excluded) if any file part is indexed and all file
\* parts in arrival order otherwise, and the field map holds for each name
\* the value of the last field part with that name.
C22_Original ==
  collected =>
    /\ files = ExpectedFiles(parts)
    /\ \A k \in FieldNames : fields[k] = LastFieldValue(parts, k)

\* C22: the collector returns the indexed files (one per index, the last
\* part of that index, ascending, flat files excluded) if any file part is
\* indexed and all file parts in arrival order otherwise; the field map
\* holds for each name the value of the last field part with that name,
\* unless a non-indexed file part arrives after it: then it holds the value
\* of the first field part with that name.
C22_CollectorOutput ==
  collected =>
    /\ files = ExpectedFiles(parts)
    /\ \A k \in FieldNames : fields[k] = MergedFieldValue(parts, k)

C22_Witness ==
  /\ collected
  /\ \E k \in FieldNames :
       /\ MergedFieldValue(parts, k) # LastFieldValue(parts, k)
       /\ fields[k] = parts[First(FieldAt(parts, k))].value



\* the user rows whose uid is the subject of the verified claim
UsersOfSubject == {u \in DbUsers : user # <<>> /\ u.uid = user[1].sub}
DbErrorClasses == {e.class : e \in DbErrors}

\* C23: every File row created by an upload has as uploader_id the id of
\* the user row whose uid is the verified claim's subject; when no such row
\* exists the lookup is answered with 401 "auth.userNotFound", no
\* storage-network call is made and no row is created.
C23_UploaderIsLookedUp ==
  route = "upload" =>
    /\ \A k \in DOMAIN records :
         \E u \in UsersOfSubject : records[k].uploader_id = u.id
    /\ (user # <<>> /\ UsersOfSubject = {}) =>
         /\ NoStorageCall /\ NoRecord /\ dbUserId = NoNum
         /\ (pc = "done" /\ collected /\ reply.status # 400
               /\ thrown \notin DbErrorClasses)
              => reply = Reply(401, "auth.userNotFound")

C23_Witness ==
  /\ route = "upload" /\ pc = "done" /\ reply.status = 201
  /\ user[1].sub = "u1" /\ records # <<>>
  /\ \A k \in DOMAIN records : records[k].uploader_id = 1


\* C24: the batch's data set id is read from the upload context only once
\* every upload of the batch has resolved, and every File row of the batch
\* stores that data set id and the provider id of the context, also when the
\* context got its data set id during the first completed upload.
C24_DataSetReadAfterUploads ==
  /\ sel.dataSetId # NoNum =>
       /\ upl # <<>> /\ \A i \in DOMAIN upl : upl[i] = "ok"
       /\ sel.dataSetId = ctx.dataSetId
  /\ \A k \in DOMAIN records :
       /\ records[k].synapse_data_set_id = ctx.dataSetId
       /\ records[k].synapse_data_set_id = DataSetOf(ctx.providerId)
       /\ records[k].storage_id = ctx.providerId
  /\ \A k, l \in DOMAIN records :
       /\ records[k].synapse_data_set_id = records[l].synapse_data_set_id
       /\ records[k].storage_id = records[l].storage_id

C24_Witness ==
  /\ pc = "done" /\ reply.status = 201 /\ Len(records) = 2
  /\ ctx.atCreate = NoNum
  /\ \A k \in DOMAIN records :
       records[k].synapse_data_set_id = DataSetOf(ctx.providerId)


\* the positions of the file parts of a stream, and of those returned
FileParts(ps) == {n \in DOMAIN ps : ps[n].type = "file"}
Returned == {files[i].content : i \in DOMAIN files}

\* C29: the collector returns no more files than the stream has file
\* parts, each the payload of one file part; of the parts of one index only
\* the last is returned, and flat parts of an indexed request are not;
\* parts that are not returned are not counted against the ceiling, their
\* MIME type is not checked, they are not uploaded and not recorded.
C29_DroppedPartsIgnored ==
  collected =>
    /\ Len(files) <= Cardinality(FileParts(parts))
    /\ \A i \in DOMAIN files :
         /\ files[i].content \in FileParts(parts)
         /\ files[i] = PartEntry(parts, files[i].content)
         /\ \A j \in DOMAIN files : files[j].content = files[i].content => j = i
    /\ \A x \in Indices : \A n \in IndexedAt(parts, x) :
         n \in Returned <=> n = Last(IndexedAt(parts, x))
    /\ (\E x \in Indices : IndexedAt(parts, x) # {}) =>
         FlatAt(parts) \cap Returned = {}
    /\ reply.key = "media.fileCountExceeded" <=>
         (Len(files) > UPLOAD_MAX_FILES /\ pc = "done")
    /\ reply.key = "media.fileTypeNotAllowed" =>
         \E n \in Returned : Disallowed(parts[n].mimetype)
    /\ upl # <<>> => DOMAIN upl = DOMAIN files
    /\ \A i \in DOMAIN results :
         results[i] \in {NoNum, PieceCid(files[i].content)}
    /\ \A k \in DOMAIN records :
         \E n \in Returned : records[k].synapse_index_id = PieceCid(n)

C29_Witness ==
  /\ collected /\ pc = "done" /\ reply.status = 201
  /\ Len(files) = 1 /\ Len(records) = 1
  /\ \E n \in FlatAt(parts) : n \notin Returned /\ Disallowed(parts[n].mimetype)


\* what the token says, and whether a user row has the claim's subject
TokenAdmits == FreshClaim # <<>> /\ RoleOf(FreshClaim[1]) = "admin"
SubjectExists ==
  FreshClaim # <<>> /\ \E u \in DbUsers : u.uid = FreshClaim[1].sub
\* the upload passed the gate and the user lookup / was refused by them
Admitted == dbUserId # NoNum
Denied == pc = "done" /\ reply.status \in {401, 403}

\* C30: whether an upload is admitted depends only on the token and on a
\* user row with the claim's subject existing, and so not on the role and
\* disabled columns of that row: a request is admitted only, and refused
\* only, as the token and the row's existence say; rows are created for a
\* user disabled or demoted since the token was issued.
C30_AdmissionIgnoresStoredUser ==
  /\ Admitted => TokenAdmits /\ SubjectExists
  /\ Denied => ~(TokenAdmits /\ SubjectExists)
  /\ records # <<>> => Admitted

C30_Witness ==
  /\ stored = [role |-> "user", disabled |-> TRUE]
  /\ pc = "done" /\ reply.status = 201 /\ records # <<>>
  /\ TokenAdmits /\ SubjectExists



\* a getSynapse call is made in this step
GetCalled == Len(gets') = Len(gets) + 1
LastGot == gets'[Len(gets')]
InFlight(s) == {p \in DOMAIN s : s[p] = "pending"}

\* C27: at most one initialization is in flight; a getSynapse call made
\* while one is in flight calls Synapse.create no further time and gets that
\* initialization's promise, so all such calls resolve alike; a failed
\* initialization clears the in-flight marker and keeps no instance, and
\* the next call starts a fresh one; once an instance exists a call returns
\* it and creates nothing.
C27_SingleInitialization ==
  [][/\ Cardinality(InFlight(inits')) <= 1
     /\ InFlight(inits') = IF initPromise' = NoNum THEN {} ELSE {initPromise'}
     /\ (GetCalled /\ initPromise # NoNum) =>
          inits' = inits /\ LastGot = Got("promise", initPromise)
     /\ (GetCalled /\ synapseInstance # NoNum) =>
          inits' = inits /\ LastGot = Got("instance", synapseInstance)
     /\ (GetCalled /\ privateKey /\ synapseInstance = NoNum
           /\ initPromise = NoNum) =>
          /\ Len(inits') = Len(inits) + 1
          /\ LastGot = Got("promise", Len(inits'))
     /\ \A p \in DOMAIN inits :
          (inits[p] = "pending" /\ inits'[p] = "failed") =>
            initPromise' = NoNum /\ synapseInstance' = synapseInstance
     /\ \A p \in DOMAIN inits :
          (inits[p] = "pending" /\ inits'[p] = "ok") =>
            initPromise' = NoNum /\ synapseInstance' = p
    ]_vars

C27_Witness ==
  /\ inits = <<"failed", "ok">> /\ synapseInstance = 2
  /\ gets = <<Got("promise", 1), Got("promise", 2), Got("promise", 2)>>

\* C28: once disconnectSynapse has returned the module retains no instance
\* until getSynapse is called again.
C28_NoInstanceAfterDisconnect ==
  released => synapseInstance = NoNum




\* the login request's account, the rows it names, and what makes a row's
\* login good
Account == Trim(lbody.username)
Named(u) == u.username = Account \/ u.email = ToLower(Account)
GoodLogin(u) ==
  /\ LoginBodySchema(lbody) /\ Named(u) /\ ~u.disabled
  /\ u.password = getPasswordHash(lbody.password)
  /\ u.role # NoVal /\ ToLower(u.role) \in {"admin", "uploader"}
TokenIssued == lreply.token # <<>>

\* C25: the login handler issues a token only for an existing, enabled user
\* named by the account whose password verifies and whose role is admin or
\* uploader in any letter case; the token's claim carries that user's uid,
\* role and username and the answer is 200; correct admin credentials are
\* answered so; whenever no token is issued no user's last_login_at or
\* last_login_ip has changed.
C25_LoginIssuesToken ==
  /\ TokenIssued =>
       /\ lreply.status = 200
       /\ \E u \in LoginUsers :
            /\ GoodLogin(u)
            /\ \E c \in {verify(lreply.token[1], ltime)} :
                 /\ c # <<>>
                 /\ c[1].sub = u.uid /\ c[1].role = u.role
                 /\ c[1].username = u.username
            /\ \A v \in LoginUsers :
                 lastLogin[v.id] =
                   IF v = u THEN [last_login_at |-> ltime,
                                  last_login_ip |-> RequestIp]
                   ELSE NoLogin
  /\ ~TokenIssued => lastLogin = NeverLoggedIn
  /\ (lpc = "done" /\ lreply.status # 500
        /\ \E u \in LoginUsers : GoodLogin(u) /\ ToLower(u.role) = "admin")
       => lreply.status = 200 /\ TokenIssued

C25_Witness ==
  /\ lpc = "done" /\ lreply.status = 200 /\ TokenIssued
  /\ lbody = [username |-> "Alice@X.io", password |-> "pw"]
  /\ verify(lreply.token[1], ltime)[1].sub = "alice"
  /\ lastLogin[1] # NoLogin

(***************************************************************************)
(* C26.  The category routes keep the default category.                    *)
(***************************************************************************)
\* the request that has just been answered
CatAnswered(kind) == cpc = "idle" /\ creq.kind = kind
DefaultId(table) == (CHOOSE c \in defaultCategory(table) : TRUE).id
\* the files of a table after every file of one category moved to another
Reassigned(fileRows, from, to) ==
  [f \in FileIds |-> IF fileRows[f] = from THEN to ELSE fileRows[f]]
DeletedCategoryId == (CHOOSE c \in categoryByUid(cbefore.categories, creq.uid) : TRUE).id

\* C26: after any sequence of category create, update and delete requests
\* the default category exists and every file that has a category references
\* an existing one; a request answered with an error left the categories and
\* the files as they were; DELETE of the default category is answered 400
\* "category.cannotDeleteDefault" (unless the database read itself failed);
\* and a DELETE answered 200 removed exactly that category and moved exactly
\* its files to the default category.
C26_DefaultCategoryKept ==
  /\ defaultCategory(categories) # {}
  /\ \A f \in FileIds :
       cfiles[f] # NoNum => \E c \in categories : c.id = cfiles[f]
  /\ (cpc = "idle" /\ creq.kind # "none" /\ creply.status >= 400) =>
       /\ categories = cbefore.categories
       /\ cfiles = cbefore.cfiles
  /\ (CatAnswered("delete") /\
      \E c \in categoryByUid(cbefore.categories, creq.uid) : c.is_default) =>
       /\ creply.status \in {400, 500}
       /\ creply.status = 400 =>
            creply = Reply(400, "category.cannotDeleteDefault")
  /\ (CatAnswered("delete") /\ creply.status = 200) =>
       /\ categoryByUid(cbefore.categories, creq.uid) # {}
       /\ categories =
            cbefore.categories \ categoryByUid(cbefore.categories, creq.uid)
       /\ cfiles = Reassigned(cbefore.cfiles, DeletedCategoryId,
                              DefaultId(cbefore.categories))

\* a non-default category holding a file has been deleted, after an earlier
\* request, and its file now belongs to the default category
C26_Witness ==
  /\ CatAnswered("delete") /\ creply = Reply(200, "success.deleted")
  /\ cops > 1
  /\ ~\E c \in categoryByUid(cbefore.categories, creq.uid) : c.is_default
  /\ \E f \in FileIds :
       /\ cbefore.cfiles[f] = DeletedCategoryId
       /\ cfiles[f] = DefaultId(categories)

(***************************************************************************)
(* C21.  Two concurrent POST /users requests and the unique indexes.       *)
(***************************************************************************)
\* the writers whose pre-check passed and whose create then broke a unique
\* index of the user table
LostTheRace == wviolated
OneRowPerKey ==
  \A u, v \in userRows :
    (u.username = v.username \/ u.email = v.email) => u = v

\* C21: when two concurrent create requests both pass assertUserUnique and
\* then both write, the one whose write violates a unique index is answered
\* 409 and never 500, and the table holds at most one row per username and
\* per email.
C21_ConstraintViolationIsConflict ==
  /\ \A r \in LostTheRace : wreply[r].status = 409
  /\ OneRowPerKey

=============================================================================
